---------------------------- MODULE Spec2Model ----------------------------
(***************************************************************************)
(* A model of onvifscout's snapshot acquisition code:                      *)
(*   device_contexts.py   the vendor catalog, get_context, get_all_paths   *)
(*   snapshot.py          the pipeline ONVIFSnapshot.capture_snapshot      *)
(*   snapshot/base.py     the retrying prober ONVIFSnapshotBase            *)
(*   snapshot/base.py     ONVIFSnapshotBase._create_soap_request           *)
(*   snapshot/profile.py  MediaProfileHandler: normalize_rtsp_url and the  *)
(*                        profile lookup                                   *)
(*   snapshot/capability.py  CapabilityDetector's endpoint enumeration     *)
(*   device_manager/manager.py  DeviceManager's device store               *)
(* Python strings are TLA+ strings; Len, \o and SubSeq act on them.        *)
(***************************************************************************)
EXTENDS Integers, Sequences, FiniteSets, TLC

VARIABLES
    \* DeviceContextManager calls (device_contexts.py)
    mPc, mName, mCtx, mPaths,
    \* classification of one probe response by the two probers
    cPc, cResp, cLenient, cHardened,
    \* ONVIFSnapshotBase._try_snapshot_url (snapshot/base.py)
    hPc, hMaxRetries, hUrl, hScript, hAttempt, hLog, hResult,
    \* MediaProfileHandler.normalize_rtsp_url (snapshot/profile.py)
    nPc, nUrl, nHost, nOut, nAgain,
    \* ONVIFSnapshot.capture_snapshot (snapshot.py)
    pc, device, catalog, parsed, context, ports, paths, portIx, pathIx, log,
    snapshotUrl, profiles, tokIx, svcIx, uriSeen, rtspUrl, result,
    \* ONVIFSnapshotBase._create_soap_request (snapshot/base.py)
    sPc, sAuth, sOutcome, sReturn,
    \* the profile lookups of MediaProfileHandler and of ONVIFSnapshot
    gPc, gDoc, gHandler, gPipeline,
    \* CapabilityDetector's endpoint enumeration (snapshot/capability.py)
    ePc, eUrl, eDoc, eSnapshot, eStream,
    \* ONVIFSnapshot._capture_rtsp_frame (snapshot.py)
    fPc, fUrl, fAuth, fProcess, fCmd, fReturn,
    \* DeviceManager (device_manager/manager.py): per user the position in
    \* its call, the call, the loaded dict, the open temp file and the
    \* write offset in it, the return value; the directory's names and
    \* files; the document the calls found
    dmPc, dmOp, dmDevices, dmFd, dmOffset, dmRet, fsNames, fsData, fsAtStart

matchVars == <<mPc, mName, mCtx, mPaths>>
classVars == <<cPc, cResp, cLenient, cHardened>>
hardVars  == <<hPc, hMaxRetries, hUrl, hScript, hAttempt, hLog, hResult>>
normVars  == <<nPc, nUrl, nHost, nOut, nAgain>>
pipeVars  == <<pc, device, catalog, parsed, context, ports, paths, portIx, pathIx,
               log, snapshotUrl, profiles, tokIx, svcIx, uriSeen, rtspUrl,
               result>>
soapVars  == <<sPc, sAuth, sOutcome, sReturn>>
lookupVars == <<gPc, gDoc, gHandler, gPipeline>>
endpointVars == <<ePc, eUrl, eDoc, eSnapshot, eStream>>
frameVars == <<fPc, fUrl, fAuth, fProcess, fCmd, fReturn>>
managerVars == <<dmPc, dmOp, dmDevices, dmFd, dmOffset, dmRet, fsNames, fsData,
                 fsAtStart>>
helperVars == <<soapVars, lookupVars, endpointVars, frameVars, managerVars>>
vars == <<matchVars, classVars, hardVars, normVars, pipeVars, helperVars>>

-----------------------------------------------------------------------------
(* Python str operations *)

UpperChars == "ABCDEFGHIJKLMNOPQRSTUVWXYZ"
LowerChars == "abcdefghijklmnopqrstuvwxyz"

Char(s, i) == SubSeq(s, i, i)

\* str.lower() of one character
LowerChar(c) ==
    IF \E i \in 1..Len(UpperChars) : Char(UpperChars, i) = c
    THEN Char(LowerChars, CHOOSE i \in 1..Len(UpperChars) : Char(UpperChars, i) = c)
    ELSE c

RECURSIVE Lower(_)
\* str.lower()
Lower(s) == IF Len(s) = 0 THEN "" ELSE LowerChar(Char(s, 1)) \o Lower(SubSeq(s, 2, Len(s)))

\* s.startswith(p)
StartsWith(s, p) == Len(s) >= Len(p) /\ SubSeq(s, 1, Len(p)) = p

\* p in s
Contains(s, p) == \E i \in 0..(Len(s) - Len(p)) : SubSeq(s, i + 1, i + Len(p)) = p

DigitChars == "0123456789"

IsDigit(c) == \E i \in 1..Len(DigitChars) : Char(DigitChars, i) = c

DigitValue(c) == (CHOOSE i \in 1..Len(DigitChars) : Char(DigitChars, i) = c) - 1

\* int(s) succeeds (on the decimal digit strings the model draws)
IsInt(s) == Len(s) > 0 /\ \A i \in 1..Len(s) : IsDigit(Char(s, i))

RECURSIVE ParseInt(_)
\* int(s) of a digit string
ParseInt(s) ==
    IF Len(s) = 0 THEN 0
    ELSE 10 * ParseInt(SubSeq(s, 1, Len(s) - 1)) + DigitValue(Char(s, Len(s)))

\* the first index >= from of a character of cs in s, or Len(s) + 1
IndexOfAny(s, cs, from) ==
    LET hits == {i \in from..Len(s) : Char(s, i) \in cs}
    IN  IF hits = {} THEN Len(s) + 1
        ELSE CHOOSE i \in hits : \A j \in hits : i <= j

\* the last index of character c in s, or 0
LastIndexOf(s, c) ==
    LET hits == {i \in 1..Len(s) : Char(s, i) = c}
    IN  IF hits = {} THEN 0
        ELSE CHOOSE i \in hits : \A j \in hits : i >= j

RECURSIVE ToStr(_)
\* str(n) of an integer n >= 0
ToStr(n) ==
    IF n < 10 THEN Char(DigitChars, n + 1)
    ELSE ToStr(n \div 10) \o Char(DigitChars, (n % 10) + 1)

RECURSIVE DictFromKeys(_, _)
\* list(dict.fromkeys(xs)): keep the first occurrence of every element, in order
DictFromKeys(xs, seen) ==
    IF xs = <<>> THEN <<>>
    ELSE IF Head(xs) \in seen THEN DictFromKeys(Tail(xs), seen)
         ELSE <<Head(xs)>> \o DictFromKeys(Tail(xs), seen \cup {Head(xs)})

Range(f) == {f[i] : i \in DOMAIN f}

-----------------------------------------------------------------------------
(* urllib.parse.urlparse of a URL "<scheme>://<netloc><path>?<query>".     *)
(* PyNone is Python's None where a string is expected, NoPort where a port *)
(* number is expected, BadPort a port whose reading raises ValueError.     *)

PyNone == "<None>"
NoPort == 0 - 1
BadPort == 0 - 2

\* where the netloc starts: after "<scheme>://"
NetlocStart(url) == IndexOfAny(url, {":"}, 1) + 3

\* where the netloc ends: urlsplit cuts it at the first of / ? #
NetlocEnd(url) == IndexOfAny(url, {"/", "?", "#"}, NetlocStart(url))

UrlScheme(url) == Lower(SubSeq(url, 1, IndexOfAny(url, {":"}, 1) - 1))

UrlNetloc(url) == SubSeq(url, NetlocStart(url), NetlocEnd(url) - 1)

\* parsed.path: what follows the netloc, up to the query or fragment
UrlPath(url) ==
    SubSeq(url, NetlocEnd(url), IndexOfAny(url, {"?", "#"}, NetlocEnd(url)) - 1)

\* the netloc with its userinfo (all up to the last @) removed
HostInfo(url) ==
    LET netloc == UrlNetloc(url)
    IN  SubSeq(netloc, LastIndexOf(netloc, "@") + 1, Len(netloc))

\* parsed.hostname: lowercased, None when empty
UrlHostname(url) ==
    LET info == HostInfo(url)
        host == SubSeq(info, 1, IndexOfAny(info, {":"}, 1) - 1)
    IN  IF host = "" THEN PyNone ELSE Lower(host)

\* the text after the first colon of the host info, None when there is none
UrlPortText(url) ==
    LET info == HostInfo(url)
        text == SubSeq(info, IndexOfAny(info, {":"}, 1) + 1, Len(info))
    IN  IF text = "" THEN PyNone ELSE text

\* parsed.port
UrlPort(url) ==
    LET text == UrlPortText(url)
    IN  IF text = PyNone THEN NoPort
        ELSE IF ~IsInt(text) THEN BadPort
        ELSE IF ParseInt(text) > 65535 THEN BadPort
        ELSE ParseInt(text)

\* str(x) of a hostname in an f-string
FormatHost(h) == IF h = PyNone THEN "None" ELSE h

\* urlparse(url), the attributes the callers read
urlparse(url) ==
    [scheme |-> UrlScheme(url), hostname |-> UrlHostname(url),
     port |-> UrlPort(url)]

-----------------------------------------------------------------------------
(* device_contexts.py: the vendor catalog *)

DEVICE_CONTEXTS ==
    [k \in {"tp-link", "cp-plus", "hikvision", "dahua", "generic"} |->
      CASE k = "tp-link" ->
        [name |-> "TP-Link",
         keywords |-> <<"tp-link", "tplink", "vigi">>,
         ports |-> <<2020, 80, 8080, 554>>,
         paths |-> <<"/onvif/snapshot", "/onvif/media/snapshot",
                     "/onvif/media1/snapshot", "/onvif/media2/snapshot",
                     "/onvif/media3/snapshot", "/onvif/media_service/snapshot",
                     "/onvif/device_service/snapshot",
                     "/onvif/event_service/snapshot", "/onvif/snapshot/jpeg",
                     "/media/snapshot/stream", "/stream/snap", "/stream/snapshot">>,
         media_services |-> <<"/onvif/media_service", "/onvif/device_service",
                              "/onvif/service">>]
        [] k = "cp-plus" ->
        [name |-> "CP-Plus",
         keywords |-> <<"cp-plus", "cp plus", "cpplus">>,
         ports |-> <<80, 8000, 8080, 554>>,
         paths |-> <<"/onvif/media_service/snapshot",
                     "/onvif/streaming/channels/1/picture", "/onvif/snap.jpg",
                     "/picture/1/current", "/picture.jpg", "/picture/1",
                     "/images/snapshot.jpg", "/cgi-bin/snapshot.cgi",
                     "/cgi-bin/snapshot", "/jpeg", "/jpg/1/image.jpg", "/snap">>,
         media_services |-> <<"/onvif/media_service", "/onvif/streaming", "/media">>]
        [] k = "hikvision" ->
        [name |-> "Hikvision",
         keywords |-> <<"hikvision", "hik">>,
         ports |-> <<80, 8000, 554>>,
         paths |-> <<"/ISAPI/Streaming/channels/101/picture",
                     "/ISAPI/Streaming/channels/1/picture",
                     "/Streaming/channels/1/picture", "/onvif/snapshot",
                     "/onvif-http/snapshot">>,
         media_services |-> <<"/ISAPI/Streaming", "/onvif/media_service">>]
        [] k = "dahua" ->
        [name |-> "Dahua",
         keywords |-> <<"dahua">>,
         ports |-> <<80, 8080, 554>>,
         paths |-> <<"/cgi-bin/snapshot.cgi", "/cgi-bin/snapshot.cgi?channel=1",
                     "/cgi-bin/snapManager.cgi?action=attachFileProc&Flags=1",
                     "/snapshot/1", "/cgi-bin/snapshot">>,
         media_services |-> <<"/onvif/media_service", "/cgi-bin">>]
        [] k = "generic" ->
        [name |-> "Generic",
         keywords |-> <<>>,
         ports |-> <<80, 8080, 554>>,
         paths |-> <<"/onvif-http/snapshot", "/onvif/camera/1/snapshot",
                     "/snap.jpg", "/snapshot", "/image", "/image/jpeg.cgi",
                     "/cgi-bin/snapshot.cgi", "/snapshot.jpg", "/jpeg",
                     "/video.mjpg", "/cgi-bin/api.cgi?cmd=Snap&channel=1">>,
         media_services |-> <<"/onvif/media_service", "/onvif/device_service">>]]

\* DEVICE_CONTEXTS.values(): a dict iterates in insertion order
CatalogOrder == <<"tp-link", "cp-plus", "hikvision", "dahua", "generic">>

\* DeviceContext.matches with the lowering of the device name left out
MatchesCaseSensitive(ctx, device_name) ==
    \E i \in DOMAIN ctx.keywords : Contains(device_name, Lower(ctx.keywords[i]))

\* DeviceContext.matches
matches(ctx, device_name) ==
    LET lowered == Lower(device_name)
    IN  \E i \in DOMAIN ctx.keywords : Contains(lowered, Lower(ctx.keywords[i]))

\* DeviceContextManager.get_context: the key of the context returned
get_context(device_name) ==
    IF device_name = "" THEN "generic"
    ELSE IF \E i \in DOMAIN CatalogOrder :
                matches(DEVICE_CONTEXTS[CatalogOrder[i]], device_name)
         THEN CatalogOrder[CHOOSE i \in DOMAIN CatalogOrder :
                /\ matches(DEVICE_CONTEXTS[CatalogOrder[i]], device_name)
                /\ \A j \in 1..(i - 1) :
                      ~matches(DEVICE_CONTEXTS[CatalogOrder[j]], device_name)]
         ELSE "generic"

\* get_all_paths without the final dict.fromkeys
GetAllPathsNoDedup(ctx) ==
    IF Lower(ctx.name) # "generic"
    THEN ctx.paths \o DEVICE_CONTEXTS["generic"].paths
    ELSE ctx.paths

\* DeviceContextManager.get_all_paths
get_all_paths(ctx) ==
    LET own == ctx.paths
        all == IF Lower(ctx.name) # "generic"
               THEN own \o DEVICE_CONTEXTS["generic"].paths
               ELSE own
    IN  DictFromKeys(all, {})


-----------------------------------------------------------------------------
(* Calls of DeviceContextManager: get_context on a device name, then      *)
(* get_all_paths on the context it returned.                               *)

\* how many fragments a device name is put together from
MaxFragments == 2

Fragments ==
    {"Hik", "vision", "VIGI", "TP-", "Link", "tplink", "CP-", "Cp ", "PLUS",
     "cpplus", "DAHUA", "da", "hua", "-X"}

RECURSIVE NamesUpTo(_)
NamesUpTo(n) ==
    IF n = 0 THEN {""}
    ELSE LET shorter == NamesUpTo(n - 1)
         IN  shorter \cup {a \o f : a \in shorter, f \in Fragments}

DeviceNames == NamesUpTo(MaxFragments)

MatchIdle ==
    /\ mPc = "idle" /\ mName = "" /\ mCtx = "generic" /\ mPaths = <<>>

InitMatch ==
    /\ mPc = "start"
    /\ mName \in DeviceNames
    /\ mCtx = "generic"
    /\ mPaths = <<>>

\* context = DeviceContextManager.get_context(device.name)
MGetContext ==
    /\ mPc = "start"
    /\ mCtx' = get_context(mName)
    /\ mPc' = "matched"
    /\ UNCHANGED <<mName, mPaths>>
    /\ UNCHANGED <<classVars, hardVars, normVars, pipeVars, helperVars>>

\* paths = DeviceContextManager.get_all_paths(context)
MGetAllPaths ==
    /\ mPc = "matched"
    /\ mPaths' = get_all_paths(DEVICE_CONTEXTS[mCtx])
    /\ mPc' = "expanded"
    /\ UNCHANGED <<mName, mCtx>>
    /\ UNCHANGED <<classVars, hardVars, normVars, pipeVars, helperVars>>


-----------------------------------------------------------------------------
(* Validation of one probe response by the two probers.  A response is     *)
(* [status, ctype, clen, body]: ctype and clen are the content-type and    *)
(* content-length headers (Absent when the header is missing); body is the *)
(* payload, kept as its length and its first bytes.                        *)

Absent == "<absent>"

\* headers.get(name, default)
HeaderGet(value, default) == IF value = Absent THEN default ELSE value

JPEG_SIGNATURE == <<255, 216, 255>>
PNG_SIGNATURE == <<137, 80, 78, 71, 13, 10, 26, 10>>

\* bytes.startswith
BytesStartWith(body, sig) ==
    /\ body.length >= Len(sig)
    /\ Len(body.head) >= Len(sig)
    /\ SubSeq(body.head, 1, Len(sig)) = sig

\* the content_length > 1000 of snapshot.py
MinContentLength == 1000

\* ONVIFSnapshotBase._is_valid_image
is_valid_image(body) ==
    IF BytesStartWith(body, JPEG_SIGNATURE) THEN TRUE
    ELSE IF BytesStartWith(body, PNG_SIGNATURE) THEN TRUE
    ELSE FALSE

\* ONVIFSnapshot._try_snapshot_url, the verdict on a response received:
\* int() of a malformed content-length raises ValueError, which the
\* except clause turns into False
LenientIsHit(r) ==
    IF r.status = 200
    THEN LET content_type == HeaderGet(r.ctype, "")
             length_text == HeaderGet(r.clen, "0")
         IN  IF ~IsInt(length_text) THEN FALSE
             ELSE /\ StartsWith(content_type, "image/")
                  /\ ParseInt(length_text) > MinContentLength
    ELSE FALSE

\* ONVIFSnapshotBase._try_snapshot_url, the verdict on a response received
HardenedIsHit(r) ==
    IF r.status = 200
    THEN LET content_type == Lower(HeaderGet(r.ctype, ""))
         IN  IF Contains(content_type, "image/")
             THEN is_valid_image(r.body)
             ELSE FALSE
    ELSE FALSE

ProbeStatuses == {200, 401, 404}

ContentTypes ==
    {Absent, "image/jpeg", "Image/PNG", "image/png; q=1", "text/html",
     "application/octet-stream", "text/html; alt=image/jpeg"}

ContentLengths == {Absent, "0", "3", "1000", "1001", "5000", "abc"}

Bodies ==
    {[length |-> 0, head |-> <<>>],
     [length |-> 3, head |-> JPEG_SIGNATURE],
     [length |-> 5000, head |-> JPEG_SIGNATURE \o <<224, 0, 16, 74, 70>>],
     [length |-> 8, head |-> PNG_SIGNATURE],
     [length |-> 1001, head |-> PNG_SIGNATURE],
     [length |-> 5000, head |-> <<60, 104, 116, 109, 108, 62, 10, 60>>]}

ProbeResponses ==
    [status : ProbeStatuses, ctype : ContentTypes, clen : ContentLengths,
     body : Bodies]

NoResponse == [status |-> 0, ctype |-> Absent, clen |-> Absent,
               body |-> [length |-> 0, head |-> <<>>]]

ClassIdle ==
    /\ cPc = "idle" /\ cResp = NoResponse /\ cLenient = FALSE /\ cHardened = FALSE

InitClassify ==
    /\ cPc = "start"
    /\ cResp \in ProbeResponses
    /\ cLenient = FALSE
    /\ cHardened = FALSE

\* both probers judge the response
Classify ==
    /\ cPc = "start"
    /\ cLenient' = LenientIsHit(cResp)
    /\ cHardened' = HardenedIsHit(cResp)
    /\ cPc' = "done"
    /\ UNCHANGED cResp
    /\ UNCHANGED <<matchVars, hardVars, normVars, pipeVars, helperVars>>

-----------------------------------------------------------------------------
(* ONVIFSnapshotBase._try_snapshot_url (snapshot/base.py): one call, on an *)
(* object constructed with max_retries.  hScript is what the device and    *)
(* the network would do to each attempt's GET: a response, a timeout or a  *)
(* connection error.                                                       *)

\* the largest max_retries an object is constructed with
MaxRetriesBound == 3

\* `from datetime import time`: the name time is the class datetime.time
TimeBinding == "datetime.time"

\* the attributes of what the name time may be bound to
AttributesOf(obj) ==
    IF obj = "datetime.time"
    THEN {"hour", "minute", "second", "microsecond", "tzinfo", "fold", "min",
          "max", "resolution", "replace", "isoformat", "fromisoformat",
          "strftime", "tzname", "utcoffset", "dst"}
    ELSE IF obj = "module time"
    THEN {"time", "sleep", "monotonic", "perf_counter", "strftime"}
    ELSE {}

\* 0.5 s, in tenths of a second
BackoffTenths == 5

GoodJpeg == [status |-> 200, ctype |-> "image/jpeg", clen |-> "5000",
             body |-> [length |-> 5000,
                       head |-> JPEG_SIGNATURE \o <<224, 0, 16, 74, 70>>]]
HtmlPage == [status |-> 200, ctype |-> "text/html", clen |-> "5000",
             body |-> [length |-> 5000,
                       head |-> <<60, 104, 116, 109, 108, 62, 10, 60>>]]
StatusOnly(code) == [status |-> code, ctype |-> "text/html", clen |-> "0",
                     body |-> [length |-> 0, head |-> <<>>]]

AttemptOutcomes ==
    {[kind |-> "response", resp |-> GoodJpeg],
     [kind |-> "response", resp |-> HtmlPage],
     [kind |-> "response", resp |-> StatusOnly(401)],
     [kind |-> "response", resp |-> StatusOnly(404)],
     [kind |-> "timeout", resp |-> NoResponse],
     [kind |-> "connection_error", resp |-> NoResponse]}

HardenedUrls ==
    {"http://192.168.1.64:80/onvif/snapshot",
     "http://192.168.1.64:80/cgi-bin/snapshot.cgi?channel=1"}

HardIdle ==
    /\ hPc = "idle" /\ hMaxRetries = 0 /\ hUrl = "" /\ hScript = <<>>
    /\ hAttempt = 0 /\ hLog = <<>> /\ hResult = "none"

\* ONVIFSnapshotBase(timeout, max_retries)
InitHardened ==
    /\ hPc = "ready"
    /\ hMaxRetries \in 0..MaxRetriesBound
    /\ hUrl = ""
    /\ hScript = <<>>
    /\ hAttempt = 0
    /\ hLog = <<>>
    /\ hResult = "none"

\* _try_snapshot_url(url, auth, headers) is entered: response = None and
\* the for loop starts
HCall ==
    /\ hPc = "ready"
    /\ \E url \in HardenedUrls, script \in [1..hMaxRetries -> AttemptOutcomes] :
          /\ hUrl' = url
          /\ hScript' = script
    /\ hAttempt' = 0
    /\ hPc' = "loop"
    /\ UNCHANGED <<hMaxRetries, hLog, hResult>>
    /\ UNCHANGED <<matchVars, classVars, normVars, pipeVars, helperVars>>

\* one pass of `for attempt in range(self.max_retries)`: the cache buster,
\* the GET, the verdict, the backoff sleep, the except and finally clauses
HIter ==
    /\ hPc = "loop"
    /\ hAttempt < hMaxRetries
    /\ IF "time" \notin AttributesOf(TimeBinding)
       THEN \* time.time() raises AttributeError, which no except clause
            \* of the loop catches: the call ends by raising
            /\ hResult' = "AttributeError"
            /\ hPc' = "done"
            /\ UNCHANGED <<hAttempt, hLog>>
       ELSE LET o == hScript[hAttempt + 1]
                sent == Append(hLog, [op |-> "GET", attempt |-> hAttempt,
                                      tenths |-> 0])
                slept == Append(sent, [op |-> "sleep", attempt |-> hAttempt,
                                       tenths |-> BackoffTenths * (hAttempt + 1)])
            IN  IF o.kind # "response"
                THEN \* Timeout or RequestException: logged, next attempt
                     /\ hLog' = sent
                     /\ hAttempt' = hAttempt + 1
                     /\ UNCHANGED <<hPc, hResult>>
                ELSE IF HardenedIsHit(o.resp)
                THEN \* return content
                     /\ hLog' = sent
                     /\ hResult' = "content"
                     /\ hPc' = "done"
                     /\ UNCHANGED hAttempt
                ELSE IF o.resp.status # 200 /\ o.resp.status = 401
                THEN \* break, then return None
                     /\ hLog' = sent
                     /\ hResult' = "None"
                     /\ hPc' = "done"
                     /\ UNCHANGED hAttempt
                ELSE \* any other miss: sleep unless this was the last attempt
                     /\ hLog' = IF hAttempt < hMaxRetries - 1 THEN slept ELSE sent
                     /\ hAttempt' = hAttempt + 1
                     /\ UNCHANGED <<hPc, hResult>>
    /\ UNCHANGED <<hMaxRetries, hUrl, hScript>>
    /\ UNCHANGED <<matchVars, classVars, normVars, pipeVars, helperVars>>

\* the loop ran out: return None
HLoopEnd ==
    /\ hPc = "loop"
    /\ hAttempt >= hMaxRetries
    /\ hResult' = "None"
    /\ hPc' = "done"
    /\ UNCHANGED <<hMaxRetries, hUrl, hScript, hAttempt, hLog>>
    /\ UNCHANGED <<matchVars, classVars, normVars, pipeVars, helperVars>>

-----------------------------------------------------------------------------
(* MediaProfileHandler.normalize_rtsp_url (snapshot/profile.py) *)

RaisedValueError == "<ValueError>"

\* MediaProfileHandler.normalize_rtsp_url(url, device_host)
normalize_rtsp_url(url, device_host) ==
    IF ~StartsWith(url, "rtsp://")
    THEN "rtsp://" \o device_host \o ":554"
            \o (IF StartsWith(url, "/") THEN url ELSE "/" \o url)
    ELSE IF UrlPort(url) = BadPort THEN RaisedValueError
    ELSE IF UrlPort(url) = NoPort \/ UrlPort(url) = 0
    THEN UrlScheme(url) \o "://" \o FormatHost(UrlHostname(url)) \o ":554"
            \o UrlPath(url)
    ELSE url

RtspPaths == {"", "/stream1", "/Streaming/Channels/101"}
RtspQueries == {"", "?channel=1&subtype=0"}
RtspUserInfos == {"", "admin:pw@"}
RtspHosts == {"cam1", "Cam1", "192.168.1.64"}
RtspPortTexts == {"", ":554", ":8554"}

\* what a GetStreamUri response may hold in its Uri element
StreamUris ==
    {p \o q : p \in (RtspPaths \cup {"stream1"}) \ {""}, q \in RtspQueries}
    \cup {"http://cam1/stream1"}
    \cup {scheme \o u \o h \o pt \o p \o q :
            scheme \in {"rtsp://", "RTSP://"}, u \in RtspUserInfos,
            h \in RtspHosts, pt \in RtspPortTexts, p \in RtspPaths,
            q \in RtspQueries}

\* device_host: a name, an IPv4 address, an IPv6 address as the hostname
\* attribute of a parsed device URL gives it (without brackets)
DeviceHosts == {"cam1", "192.168.1.64", "fe80::1"}

NormIdle ==
    nPc = "idle" /\ nUrl = "" /\ nHost = "" /\ nOut = "" /\ nAgain = ""

InitNormalize ==
    /\ nPc = "start"
    /\ nUrl \in StreamUris
    /\ nHost \in DeviceHosts
    /\ nOut = ""
    /\ nAgain = ""

\* normalize_rtsp_url(url, device_host) is called
Normalize ==
    /\ nPc = "start"
    /\ nOut' = normalize_rtsp_url(nUrl, nHost)
    /\ nPc' = "done"
    /\ UNCHANGED <<nUrl, nHost, nAgain>>
    /\ UNCHANGED <<matchVars, classVars, hardVars, pipeVars, helperVars>>

\* normalize_rtsp_url is called on the URL the first call returned, with
\* the same device_host
NormalizeAgain ==
    /\ nPc = "done"
    /\ nOut # RaisedValueError
    /\ nAgain' = normalize_rtsp_url(nOut, nHost)
    /\ nPc' = "again"
    /\ UNCHANGED <<nUrl, nHost, nOut>>
    /\ UNCHANGED <<matchVars, classVars, hardVars, pipeVars, helperVars>>

-----------------------------------------------------------------------------
(* ONVIFSnapshot._capture_rtsp_frame (snapshot.py): one call *)

\* str.replace(old, new): every non-overlapping occurrence of old, from the
\* left, becomes new
RECURSIVE Replace(_, _, _)
Replace(s, old, new) ==
    IF old = "" \/ Len(s) < Len(old) THEN s
    ELSE IF SubSeq(s, 1, Len(old)) = old
    THEN new \o Replace(SubSeq(s, Len(old) + 1, Len(s)), old, new)
    ELSE SubSeq(s, 1, 1) \o Replace(SubSeq(s, 2, Len(s)), old, new)

\* rtsp_url_with_auth (lines 236-240)
rtsp_url_with_auth(rtsp_url, auth) ==
    LET p == urlparse(rtsp_url)
    IN  Replace(rtsp_url,
                p.scheme \o "://" \o FormatHost(p.hostname),
                p.scheme \o "://" \o auth[1] \o ":" \o auth[2] \o "@"
                    \o FormatHost(p.hostname))

\* cmd (lines 242-256)
FfmpegCommand(url_with_auth, output_path) ==
    <<"ffmpeg", "-y", "-rtsp_transport", "tcp", "-i", url_with_auth,
      "-frames:v", "1", "-q:v", "2", "-f", "image2", output_path>>

\* the timeout subprocess.run is called with: the call names none, and
\* subprocess.run then waits for the process without limit
NoTimeout == "<no timeout>"
SubprocessRunTimeout == NoTimeout

\* the stream URLs _get_rtsp_stream_url can hand over: a device's own
\* rtsp:// URI, or rtsp://<host>:554<path>
FrameUrls ==
    {"rtsp://192.168.1.64:554/Streaming/Channels/101",
     "rtsp://cam1:554/stream1",
     "rtsp://cam1/stream1",
     "rtsp://Cam1:554/stream1",
     "rtsp://root:x@cam1:554/stream1",
     "rtsp://cam1:554/proxy?src=rtsp://cam1/a",
     "rtsp://CAM1.local/live"}

FrameAuths ==
    {<<"admin", "pw", "Digest">>, <<"admin", "12345", "Basic">>,
     <<"root", "pw", "Digest">>}

\* what becomes of the ffmpeg process
ProcessOutcomes ==
    {"exit 0, file written", "exit 0, no file", "exit 1",
     "FileNotFoundError", "never exits"}

OutputPath == "snapshots/snapshot_192.168.1.64_20240101_120000.jpg"

FrameIdle ==
    /\ fPc = "idle" /\ fUrl = "" /\ fAuth = <<>> /\ fProcess = ""
    /\ fCmd = <<>> /\ fReturn = PyNone

InitFrame ==
    /\ fPc = "start"
    /\ fUrl \in FrameUrls
    /\ fAuth \in FrameAuths
    /\ fProcess \in ProcessOutcomes
    /\ fCmd = <<>>
    /\ fReturn = PyNone

\* _capture_rtsp_frame builds the command and calls subprocess.run
FrameRun ==
    /\ fPc = "start"
    /\ fCmd' = FfmpegCommand(rtsp_url_with_auth(fUrl, fAuth), OutputPath)
    /\ fPc' = "running"
    /\ UNCHANGED <<fUrl, fAuth, fProcess, fReturn>>
    /\ UNCHANGED <<soapVars, lookupVars, endpointVars, managerVars>>
    /\ UNCHANGED <<matchVars, classVars, hardVars, normVars, pipeVars>>

\* subprocess.run comes back (the process exited, or could not be started
\* and the exception was caught) and _capture_rtsp_frame returns; with no
\* timeout, a process that never exits is waited for without end
FrameReturn ==
    /\ fPc = "running"
    /\ fProcess # "never exits" \/ SubprocessRunTimeout # NoTimeout
    /\ fReturn' = IF fProcess = "exit 0, file written"
                  THEN OutputPath ELSE PyNone
    /\ fPc' = "done"
    /\ UNCHANGED <<fUrl, fAuth, fProcess, fCmd>>
    /\ UNCHANGED <<soapVars, lookupVars, endpointVars, managerVars>>
    /\ UNCHANGED <<matchVars, classVars, hardVars, normVars, pipeVars>>

-----------------------------------------------------------------------------
(* ONVIFSnapshot.capture_snapshot (snapshot.py): one invocation on one     *)
(* device, [name, url, creds] with url = device.urls[0] and creds =        *)
(* device.valid_credentials.  log is what the invocation asked of the      *)
(* network and of ffmpeg, in order.                                        *)

\* str(port) in an f-string: None prints as "None"
FormatPort(p) == IF p = NoPort THEN "None" ELSE ToStr(p)

\* xml.etree.ElementTree's ElementPath knows the predicates [@attr],
\* [@attr='v'], [tag], [tag='v'], [.='v'] and [position]; on any other, such
\* as [local-name()='Uri'], find and findall raise SyntaxError
FindRaises(xpath) == Contains(xpath, "[local-name()")

\* root.findall(".//<prefix>:<tag>", self._namespaces): the elements of the
\* document, in document order, whose namespace is the prefix's
FindAllQualified(doc, prefix, tag) ==
    LET Wanted(e) == e.ns = prefix /\ e.tag = tag
    IN  SelectSeq(doc, Wanted)

DeviceNamesProbed == {"", "Hikvision-X"}

DeviceUrls ==
    {"http://192.168.1.64:80/onvif/device_service",
     "http://192.168.1.64/onvif/device_service",
     "http://192.168.1.64:8000/onvif/device_service"}

CredentialLists ==
    {<<>>,
     <<<<"admin", "pw", "Digest">>>>,
     <<<<"admin", "12345", "Basic">>, <<"root", "pw", "Digest">>>>}

Devices == [name : DeviceNamesProbed, url : DeviceUrls, creds : CredentialLists]

NoDevice == [name |-> "", url |-> "", creds |-> <<>>]
NotParsed == [scheme |-> "", hostname |-> PyNone, port |-> NoPort]
\* what capture_snapshot came to: resp is the response whose content was
\* written to the output file, if one was
NoResult == [status |-> "none", via |-> "", source |-> "", resp |-> NoResponse]
Failure == [status |-> "failure", via |-> "", source |-> "", resp |-> NoResponse]

\* what a GET may come to: a response, or an exception of requests
ProbeOutcomes ==
    {[kind |-> "response", resp |-> GoodJpeg],
     [kind |-> "response", resp |-> HtmlPage],
     [kind |-> "response", resp |-> StatusOnly(401)],
     [kind |-> "response", resp |-> StatusOnly(404)],
     [kind |-> "response",
      resp |-> [GoodJpeg EXCEPT !.clen = "3",
                                !.body = [length |-> 3, head |-> JPEG_SIGNATURE]]],
     [kind |-> "response", resp |-> [GoodJpeg EXCEPT !.clen = Absent]],
     [kind |-> "timeout", resp |-> NoResponse]}

\* the Profiles elements of GetProfiles response documents
ProfileDocs ==
    {<<>>,
     <<[ns |-> "trt", tag |-> "Profiles", token |-> "Profile_1"]>>,
     <<[ns |-> "trt", tag |-> "Profiles", token |-> "Profile_1"],
       [ns |-> "trt", tag |-> "Profiles", token |-> "Profile_2"]>>,
     <<[ns |-> "trt", tag |-> "Profiles", token |-> ""]>>,
     <<[ns |-> "tt", tag |-> "Profiles", token |-> "Profile_1"]>>,
     <<[ns |-> "tr2", tag |-> "Profiles", token |-> "Profile_1"]>>,
     <<[ns |-> "", tag |-> "Profiles", token |-> "Profile_1"]>>}

\* what a GetProfiles POST may come to
ProfilesOutcomes ==
    {[kind |-> "timeout", status |-> 0, wellformed |-> FALSE, doc |-> <<>>],
     [kind |-> "response", status |-> 401, wellformed |-> FALSE, doc |-> <<>>],
     [kind |-> "response", status |-> 200, wellformed |-> FALSE, doc |-> <<>>]}
    \cup {[kind |-> "response", status |-> 200, wellformed |-> TRUE, doc |-> d] :
            d \in ProfileDocs}

\* the text of the Uri element of GetStreamUri response documents
\* (Absent: the document has no Uri element)
PipelineStreamUris ==
    {Absent, "", "/Streaming/Channels/101",
     "rtsp://192.168.1.64/Streaming/Channels/101",
     "rtsp://192.168.1.64:554/Streaming/Channels/101"}

\* what a GetStreamUri POST may come to
StreamUriOutcomes ==
    {[kind |-> "timeout", status |-> 0, wellformed |-> FALSE, uri |-> Absent],
     [kind |-> "response", status |-> 500, wellformed |-> TRUE, uri |-> Absent],
     [kind |-> "response", status |-> 200, wellformed |-> FALSE, uri |-> Absent]}
    \cup {[kind |-> "response", status |-> 200, wellformed |-> TRUE, uri |-> u] :
            u \in PipelineStreamUris}

\* what running ffmpeg may come to
FfmpegOutcomes == {"frame written", "failed", "never exits"}

\* `cred = device.valid_credentials[0]` taking the last credential instead
CredentialInUseLast(valid_credentials) == valid_credentials[Len(valid_credentials)]

\* cred = device.valid_credentials[0]: the credential every request of the
\* invocation is made with
CredentialInUse(valid_credentials) == valid_credentials[1]

\* one request or ffmpeg run.  hit: for a probe, _try_snapshot_url returned
\* True; for a SOAP request, the response carried what was asked for (a
\* profile with a token, a non-empty Uri); for ffmpeg, the frame was written
LogEntry(op, port, path, token, hit) ==
    [op |-> op, port |-> port, path |-> path, token |-> token, hit |-> hit,
     cred |-> CredentialInUse(device.creds)]

\* f"{parsed.scheme}://{parsed.hostname}:{port}{path}"
BuildUrl(port, path) ==
    parsed.scheme \o "://" \o FormatHost(parsed.hostname)
        \o ":" \o FormatPort(port) \o path

\* [device_port] + [p for p in context.ports if p != device_port], the
\* filter left out
ProbePortsUnfiltered(device_port, context_ports) ==
    <<device_port>> \o context_ports

\* ports = [device_port] + [p for p in context.ports if p != device_port]
ProbePorts(device_port, context_ports) ==
    LET Other(p) == p # device_port
    IN  <<device_port>> \o SelectSeq(context_ports, Other)

\* `if not device.valid_credentials`, the check left out
HasNoCredentialsNever(creds) == FALSE

\* not device.valid_credentials
HasNoCredentials(creds) == creds = <<>>

\* `if rtsp_url:`, the test left out
IsTruthyAlways(value) == TRUE

\* the truth value of an Optional[str]: None and "" are false
IsTruthy(value) == value # PyNone /\ value # ""

\* `paths = context.paths.copy()` without the copy: extend then lengthens
\* the catalog entry's own list
CatalogAfterGetAllPathsAliased(cat, key) ==
    IF Lower(cat[key].name) # "generic"
    THEN [cat EXCEPT ![key].paths = @ \o cat["generic"].paths]
    ELSE cat

\* the catalog after get_all_paths(context): the function extends a copy of
\* context.paths and builds a new list from it, the entry is not written
CatalogAfterGetAllPaths(cat, key) == cat

PipeIdle ==
    /\ pc = "idle" /\ device = NoDevice /\ catalog = DEVICE_CONTEXTS
    /\ parsed = NotParsed
    /\ context = "generic" /\ ports = <<>>
    /\ paths = <<>> /\ portIx = 0 /\ pathIx = 0 /\ log = <<>>
    /\ snapshotUrl = PyNone /\ profiles = <<>> /\ tokIx = 0 /\ svcIx = 0
    /\ uriSeen = "" /\ rtspUrl = PyNone /\ result = NoResult

Init ==
    /\ pc = "init"
    /\ device \in Devices
    /\ catalog = DEVICE_CONTEXTS
    /\ parsed = NotParsed
    /\ context = "generic" /\ ports = <<>> /\ paths = <<>>
    /\ portIx = 0 /\ pathIx = 0 /\ log = <<>>
    /\ snapshotUrl = PyNone /\ profiles = <<>> /\ tokIx = 0 /\ svcIx = 0
    /\ uriSeen = "" /\ rtspUrl = PyNone /\ result = NoResult

\* capture_snapshot is entered: the credential check, get_context, and
\* _try_device_urls up to its loops
CaptureStart ==
    /\ pc = "init"
    /\ IF HasNoCredentials(device.creds)
       THEN /\ result' = Failure
            /\ pc' = "done"
            /\ UNCHANGED <<catalog, parsed, context, ports, paths, portIx, pathIx>>
       ELSE /\ context' = get_context(device.name)
            /\ parsed' = urlparse(device.url)
            /\ ports' = ProbePorts(parsed'.port, catalog[context'].ports)
            /\ paths' = get_all_paths(catalog[context'])
            /\ catalog' = CatalogAfterGetAllPaths(catalog, context')
            /\ portIx' = 1
            /\ pathIx' = 1
            /\ pc' = "probe"
            /\ UNCHANGED result
    /\ UNCHANGED <<device, log, snapshotUrl, profiles, tokIx, svcIx, uriSeen,
                   rtspUrl>>
    /\ UNCHANGED <<matchVars, classVars, hardVars, normVars, helperVars>>

\* one pass of the inner loop of _try_device_urls: _try_snapshot_url on the
\* combination at hand; a URL with port None is refused by requests
\* (InvalidURL), which _try_snapshot_url turns into False like any exception
TrySnapshotUrl ==
    /\ pc = "probe"
    /\ portIx <= Len(ports)
    /\ \E o \in ProbeOutcomes :
          LET port == ports[portIx]
              path == paths[pathIx]
              hit == /\ port # NoPort
                     /\ o.kind = "response"
                     /\ LenientIsHit(o.resp)
          IN  /\ log' = Append(log, LogEntry("probe", port, path, "", hit))
              /\ IF hit
                 THEN /\ snapshotUrl' = BuildUrl(port, path)
                      /\ pc' = "fetch"
                      /\ UNCHANGED <<portIx, pathIx>>
                 ELSE /\ IF pathIx < Len(paths)
                         THEN pathIx' = pathIx + 1 /\ portIx' = portIx
                         ELSE pathIx' = 1 /\ portIx' = portIx + 1
                      /\ UNCHANGED <<snapshotUrl, pc>>
    /\ UNCHANGED <<device, catalog, parsed, context, ports, paths, profiles, tokIx, svcIx,
                   uriSeen, rtspUrl, result>>
    /\ UNCHANGED <<matchVars, classVars, hardVars, normVars, helperVars>>

\* _try_device_urls ran out of combinations and returns None
ProbeExhausted ==
    /\ pc = "probe"
    /\ portIx > Len(ports)
    /\ snapshotUrl' = PyNone
    /\ svcIx' = 1
    /\ pc' = "profiles"
    /\ UNCHANGED <<device, catalog, parsed, context, ports, paths, portIx, pathIx, log, profiles,
                   tokIx, uriSeen, rtspUrl, result>>
    /\ UNCHANGED <<matchVars, classVars, hardVars, normVars, helperVars>>

\* the `return output_path` after the save left out: the RTSP method follows
StageAfterSaveFallsThrough == "profiles"

\* where capture_snapshot goes once the fetched image is written:
\* `return output_path` ends the invocation
StageAfterSave == "done"

\* capture_snapshot fetches the URL _try_device_urls returned: an exception
\* of the GET reaches capture_snapshot's own except clause and ends the
\* invocation; a 200 image/ response is saved; anything else falls through
\* to the RTSP method
FetchSnapshot ==
    /\ pc = "fetch"
    /\ \E o \in ProbeOutcomes :
          /\ log' = Append(log, LogEntry("fetch", ports[portIx], paths[pathIx],
                                         "", FALSE))
          /\ IF o.kind # "response"
             THEN /\ result' = Failure
                  /\ pc' = "done"
                  /\ UNCHANGED svcIx
             ELSE IF /\ o.resp.status = 200
                     /\ StartsWith(HeaderGet(o.resp.ctype, ""), "image/")
             THEN /\ result' = [status |-> "success", via |-> "direct",
                                source |-> snapshotUrl, resp |-> o.resp]
                  /\ pc' = StageAfterSave
                  /\ svcIx' = IF StageAfterSave = "profiles" THEN 1 ELSE svcIx
             ELSE /\ svcIx' = 1
                  /\ pc' = "profiles"
                  /\ UNCHANGED result
    /\ UNCHANGED <<device, catalog, parsed, context, ports, paths, portIx, pathIx, snapshotUrl,
                   profiles, tokIx, uriSeen, rtspUrl>>
    /\ UNCHANGED <<matchVars, classVars, hardVars, normVars, helperVars>>

\* the profiles a GetProfiles response yields: the Profiles elements under
\* trt, else under tt, else by local name; those with a token
ProfilesOf(doc) ==
    LET under_trt == FindAllQualified(doc, "trt", "Profiles")
        under_tt == FindAllQualified(doc, "tt", "Profiles")
        HasToken(e) == e.token # ""
        by_local_name == LET Named(e) == e.tag = "Profiles" IN SelectSeq(doc, Named)
        found == IF under_trt # <<>> THEN under_trt
                 ELSE IF under_tt # <<>> THEN under_tt
                 ELSE by_local_name
        kept == SelectSeq(found, HasToken)
    IN  [i \in DOMAIN kept |-> kept[i].token]

\* the lookups of _get_media_profiles reach an unsupported predicate
ProfilesLookupRaises(doc) ==
    /\ FindAllQualified(doc, "trt", "Profiles") = <<>>
    /\ FindAllQualified(doc, "tt", "Profiles") = <<>>
    /\ FindRaises(".//*[local-name()='Profiles']")

\* one pass of the loop of _get_media_profiles: the GetProfiles POST to one
\* media service path and the reading of its response; every exception
\* (transport, ParseError, SyntaxError) moves on to the next path
GetProfilesRequest ==
    /\ pc = "profiles"
    /\ svcIx <= Len(catalog[context].media_services)
    /\ \E o \in ProfilesOutcomes :
          LET service_path == catalog[context].media_services[svcIx]
              port == parsed.port
              answered == port # NoPort /\ o.kind = "response"
              found == IF /\ answered /\ o.status = 200 /\ o.wellformed
                          /\ ~ProfilesLookupRaises(o.doc)
                       THEN ProfilesOf(o.doc)
                       ELSE <<>>
              carried == /\ answered /\ o.status = 200 /\ o.wellformed
                         /\ \E i \in DOMAIN o.doc : o.doc[i].token # ""
          IN  /\ log' = Append(log, LogEntry("GetProfiles", port, service_path,
                                             "", carried))
              /\ IF found # <<>>
                 THEN /\ profiles' = found
                      /\ tokIx' = 1
                      /\ svcIx' = 1
                      /\ pc' = "stream"
                 ELSE /\ svcIx' = svcIx + 1
                      /\ UNCHANGED <<profiles, tokIx, pc>>
    /\ UNCHANGED <<device, catalog, parsed, context, ports, paths, portIx, pathIx, snapshotUrl,
                   uriSeen, rtspUrl, result>>
    /\ UNCHANGED <<matchVars, classVars, hardVars, normVars, helperVars>>

\* _get_media_profiles ran out of media service paths and returns []: the
\* loop over the profiles has nothing to do and capture_snapshot returns None
ProfilesExhausted ==
    /\ pc = "profiles"
    /\ svcIx > Len(catalog[context].media_services)
    /\ profiles' = <<>>
    /\ result' = Failure
    /\ pc' = "done"
    /\ UNCHANGED <<device, catalog, parsed, context, ports, paths, portIx, pathIx, log,
                   snapshotUrl, tokIx, svcIx, uriSeen, rtspUrl>>
    /\ UNCHANGED <<matchVars, classVars, hardVars, normVars, helperVars>>

\* lines 151-155 of _get_rtsp_stream_url: the URL made of the Uri text
StreamUrlOf(uri_text) ==
    IF ~StartsWith(uri_text, "rtsp://")
    THEN "rtsp://" \o FormatHost(parsed.hostname) \o ":554" \o uri_text
    ELSE uri_text

\* one pass of the loop of _get_rtsp_stream_url: the GetStreamUri POST to
\* one media service path and the reading of its response.  uriSeen keeps
\* the first non-empty Uri text a 200 response of this call carried.
StreamUriRequest ==
    /\ pc = "stream"
    /\ svcIx <= Len(catalog[context].media_services)
    /\ \E o \in StreamUriOutcomes :
          LET service_path == catalog[context].media_services[svcIx]
              port == parsed.port
              readable == /\ port # NoPort /\ o.kind = "response"
                          /\ o.status = 200 /\ o.wellformed
              carried == IF readable /\ o.uri # Absent THEN o.uri ELSE ""
              seen == IF svcIx = 1 THEN "" ELSE uriSeen
              returns == /\ readable
                         /\ ~FindRaises(".//*[local-name()='Uri']")
                         /\ carried # ""
          IN  /\ log' = Append(log, LogEntry("GetStreamUri", port, service_path,
                                             profiles[tokIx], carried # ""))
              /\ uriSeen' = IF seen = "" THEN carried ELSE seen
              /\ IF returns
                 THEN /\ rtspUrl' = StreamUrlOf(carried)
                      /\ pc' = "resolved"
                      /\ UNCHANGED svcIx
                 ELSE /\ svcIx' = svcIx + 1
                      /\ UNCHANGED <<rtspUrl, pc>>
    /\ UNCHANGED <<device, catalog, parsed, context, ports, paths, portIx, pathIx, snapshotUrl,
                   profiles, tokIx, result>>
    /\ UNCHANGED <<matchVars, classVars, hardVars, normVars, helperVars>>

\* _get_rtsp_stream_url ran out of media service paths and returns None
ResolveExhausted ==
    /\ pc = "stream"
    /\ svcIx > Len(catalog[context].media_services)
    /\ rtspUrl' = PyNone
    /\ pc' = "resolved"
    /\ UNCHANGED <<device, catalog, parsed, context, ports, paths, portIx, pathIx, log,
                   snapshotUrl, profiles, tokIx, svcIx, uriSeen, result>>
    /\ UNCHANGED <<matchVars, classVars, hardVars, normVars, helperVars>>

\* the rest of one pass of `for profile in profiles`: with a stream URL,
\* _capture_rtsp_frame runs ffmpeg on it and its success ends the
\* invocation (an ffmpeg that never exits is waited for without end);
\* otherwise the next profile, and after the last one failure
AfterResolve ==
    /\ pc = "resolved"
    /\ \E f \in FfmpegOutcomes :
          LET captured == IsTruthy(rtspUrl) /\ f = "frame written"
              hangs == /\ IsTruthy(rtspUrl) /\ f = "never exits"
                       /\ SubprocessRunTimeout = NoTimeout
          IN  /\ log' = IF IsTruthy(rtspUrl)
                        THEN Append(log, LogEntry("ffmpeg", NoPort, rtspUrl,
                                                  profiles[tokIx], captured))
                        ELSE log
              /\ IF hangs
                 THEN /\ pc' = "extracting"
                      /\ UNCHANGED <<result, tokIx, svcIx>>
                 ELSE IF captured
                 THEN /\ result' = [status |-> "success", via |-> "rtsp",
                                    source |-> rtspUrl, resp |-> NoResponse]
                      /\ pc' = "done"
                      /\ UNCHANGED <<tokIx, svcIx>>
                 ELSE IF tokIx < Len(profiles)
                 THEN /\ tokIx' = tokIx + 1
                      /\ svcIx' = 1
                      /\ pc' = "stream"
                      /\ UNCHANGED result
                 ELSE /\ result' = Failure
                      /\ pc' = "done"
                      /\ UNCHANGED <<tokIx, svcIx>>
    /\ UNCHANGED <<device, catalog, parsed, context, ports, paths, portIx, pathIx, snapshotUrl,
                   profiles, uriSeen, rtspUrl>>
    /\ UNCHANGED <<matchVars, classVars, hardVars, normVars, helperVars>>

-----------------------------------------------------------------------------
(* ONVIFSnapshotBase._create_soap_request *)

\* `response.status_code == 200`, widened to every 2xx status
StatusIsOkAny2xx(status_code) == status_code \in 200..299

\* response.status_code == 200
StatusIsOk(status_code) == status_code = 200

SoapStatuses == {200, 201, 400, 401, 404, 500}

\* response.text: text that parses to a document, and text that does not
SoapBodies ==
    {[wellformed |-> FALSE, doc |-> <<>>]}
    \cup {[wellformed |-> TRUE, doc |-> d] : d \in ProfileDocs}

NoBody == [wellformed |-> FALSE, doc |-> <<>>]

\* what session.post may come to: a response, or an exception of requests
SoapOutcomes ==
    {[kind |-> "Timeout", status |-> 0, body |-> NoBody],
     [kind |-> "ConnectionError", status |-> 0, body |-> NoBody]}
    \cup [kind : {"response"}, status : SoapStatuses, body : SoapBodies]

SoapAuths == {<<"admin", "pw", "Digest">>, <<"admin", "pw", "Basic">>}

ReturnedNone == [kind |-> "None", doc |-> <<>>]
ReturnedDocument(doc) == [kind |-> "document", doc |-> doc]
NotReturned == [kind |-> "pending", doc |-> <<>>]

\* the call as a function of what the POST comes to: an exception of the
\* POST and the ParseError of ET.fromstring reach the except clause, after
\* which None is returned
create_soap_request(auth, outcome) ==
    IF outcome.kind # "response"
    THEN ReturnedNone
    ELSE IF StatusIsOk(outcome.status)
    THEN IF outcome.body.wellformed
         THEN ReturnedDocument(outcome.body.doc)
         ELSE ReturnedNone
    ELSE ReturnedNone

SoapIdle ==
    /\ sPc = "idle" /\ sAuth = <<>> /\ sOutcome = [kind |-> "none", status |-> 0, body |-> NoBody]
    /\ sReturn = NotReturned

InitSoap ==
    /\ sPc = "start"
    /\ sAuth \in SoapAuths
    /\ sOutcome \in SoapOutcomes
    /\ sReturn = NotReturned

\* _create_soap_request(url, soap_message, auth) runs
CreateSoapRequest ==
    /\ sPc = "start"
    /\ sReturn' = create_soap_request(sAuth, sOutcome)
    /\ sPc' = "done"
    /\ UNCHANGED <<sAuth, sOutcome>>
    /\ UNCHANGED <<lookupVars, endpointVars, frameVars, managerVars>>
    /\ UNCHANGED <<matchVars, classVars, hardVars, normVars, pipeVars>>

-----------------------------------------------------------------------------
(* The profile lookups on a GetProfiles response document *)

MaxElements == 2

\* the namespace of an element: one of the prefixes of self._namespaces
\* that it is bound to, "" for none, "vendor" for any other namespace
LookupNamespaces == {"trt", "tt", "tr2", "", "vendor"}

LookupElements ==
    [ns : LookupNamespaces, tag : {"Profiles", "Profile"},
     token : {"", "Profile_1"}]

LookupDocs == UNION {[1..n -> LookupElements] : n \in 0..MaxElements}

\* root.findall(".//*[local-name()='<tag>']"), were the predicate supported
FindAllLocal(doc, tag) ==
    LET Named(e) == e.tag = tag IN SelectSeq(doc, Named)

\* MediaProfileHandler.get_media_profiles: the tokens of the profiles it
\* returns; an exception of the lookups is caught and leaves profiles empty
get_media_profiles(soap_response) ==
    LET under_trt == FindAllQualified(soap_response, "trt", "Profiles")
        under_tt == FindAllQualified(soap_response, "tt", "Profiles")
        raises == /\ under_trt = <<>>
                  /\ under_tt = <<>>
                  /\ \/ FindRaises(".//*[local-name()='Profiles']")
                     \/ (FindAllLocal(soap_response, "Profiles") = <<>>
                           /\ FindRaises(".//*[local-name()='Profile']"))
        profile_elements ==
            IF under_trt # <<>> THEN under_trt
            ELSE IF under_tt # <<>> THEN under_tt
            ELSE IF FindAllLocal(soap_response, "Profiles") # <<>>
            THEN FindAllLocal(soap_response, "Profiles")
            ELSE FindAllLocal(soap_response, "Profile")
        HasToken(e) == e.token # ""
        kept == SelectSeq(profile_elements, HasToken)
    IN  IF raises THEN <<>> ELSE [i \in DOMAIN kept |-> kept[i].token]

LookupIdle ==
    /\ gPc = "idle" /\ gDoc = <<>> /\ gHandler = <<>> /\ gPipeline = <<>>

InitLookup ==
    /\ gPc = "start"
    /\ gDoc \in LookupDocs
    /\ gHandler = <<>>
    /\ gPipeline = <<>>

\* both lookups read the document: MediaProfileHandler.get_media_profiles
\* and lines 83-105 of ONVIFSnapshot._get_media_profiles
LookupProfiles ==
    /\ gPc = "start"
    /\ gHandler' = get_media_profiles(gDoc)
    /\ gPipeline' = IF ProfilesLookupRaises(gDoc) THEN <<>> ELSE ProfilesOf(gDoc)
    /\ gPc' = "done"
    /\ UNCHANGED gDoc
    /\ UNCHANGED <<soapVars, endpointVars, frameVars, managerVars>>
    /\ UNCHANGED <<matchVars, classVars, hardVars, normVars, pipeVars>>

-----------------------------------------------------------------------------
(* CapabilityDetector.get_snapshot_endpoints and get_stream_endpoints *)

MaxUriElements == 2

\* the SnapshotUri / StreamingUri / StreamUri elements of a capabilities
\* response, each with the text of its Uri child (Absent: no Uri child)
UriElements ==
    [tag : {"SnapshotUri", "StreamingUri", "StreamUri"},
     uri : {Absent, "", "/onvif/snap", "http://192.168.1.64:80/snap.jpg",
            "rtsp://192.168.1.64:554/live"}]

CapabilityDocs == UNION {[1..n -> UriElements] : n \in 0..MaxUriElements}

SnapshotCommonPaths ==
    <<"/onvif/snapshot", "/onvif/media/snapshot", "/onvif-http/snapshot",
      "/media/snapshot", "/snapshot">>

StreamCommonPaths ==
    <<"/onvif/media/video1", "/onvif/video", "/live/main", "/live/ch1",
      "/stream1", "/h264">>

\* the Uri texts of the elements named tag that have a non-empty one
UriTexts(doc, tag) ==
    {doc[i].uri : i \in {j \in DOMAIN doc :
                            doc[j].tag = tag /\ doc[j].uri \notin {Absent, ""}}}

\* get_snapshot_endpoints(device_url, soap_response): an exception (the
\* ValueError of parsed.port, the SyntaxError of findall) is caught and the
\* set built so far returned
get_snapshot_endpoints(device_url, soap_response) ==
    LET p == urlparse(device_url)
        base_url == p.scheme \o "://" \o FormatHost(p.hostname) \o ":"
                        \o FormatPort(p.port)
        advertised ==
            {IF StartsWith(u, "http") THEN u ELSE base_url \o u :
                u \in UriTexts(soap_response, "SnapshotUri")}
        common == {base_url \o SnapshotCommonPaths[i] :
                      i \in DOMAIN SnapshotCommonPaths}
    IN  IF p.port = BadPort THEN {}
        ELSE IF FindRaises(".//*[local-name()='SnapshotUri']") THEN {}
        ELSE advertised \cup common

\* get_stream_endpoints(device_url, soap_response)
get_stream_endpoints(device_url, soap_response) ==
    LET p == urlparse(device_url)
        hostname == FormatHost(p.hostname)
        stream_tag ==
            IF \E i \in DOMAIN soap_response :
                  soap_response[i].tag = "StreamingUri"
            THEN "StreamingUri" ELSE "StreamUri"
        advertised ==
            {IF StartsWith(u, "rtsp") THEN u
             ELSE "rtsp://" \o hostname \o ":554" \o u :
                u \in UriTexts(soap_response, stream_tag)}
        common == {"rtsp://" \o hostname \o ":554" \o StreamCommonPaths[i] :
                      i \in DOMAIN StreamCommonPaths}
    IN  IF FindRaises(".//*[local-name()='StreamingUri']") THEN {}
        ELSE advertised \cup common

EndpointIdle ==
    /\ ePc = "idle" /\ eUrl = "" /\ eDoc = <<>> /\ eSnapshot = {} /\ eStream = {}

InitEndpoints ==
    /\ ePc = "start"
    /\ eUrl \in DeviceUrls
    /\ eDoc \in CapabilityDocs
    /\ eSnapshot = {}
    /\ eStream = {}

\* both enumerations run on the capabilities response
GetEndpoints ==
    /\ ePc = "start"
    /\ eSnapshot' = get_snapshot_endpoints(eUrl, eDoc)
    /\ eStream' = get_stream_endpoints(eUrl, eDoc)
    /\ ePc' = "done"
    /\ UNCHANGED <<eUrl, eDoc>>
    /\ UNCHANGED <<soapVars, lookupVars, frameVars, managerVars>>
    /\ UNCHANGED <<matchVars, classVars, hardVars, normVars, pipeVars>>

-----------------------------------------------------------------------------
(* DeviceManager (device_manager/manager.py): the users of one config      *)
(* directory, each making one call of add_device, delete_device or         *)
(* update_device_metadata.  The directory holds devices.json and, while a  *)
(* call writes, devices.tmp; a name refers to an inode, and an open file   *)
(* keeps its inode whatever happens to the name.  A file's content is a    *)
(* sequence of tokens: the opening brace, one token per device entry, the  *)
(* closing brace.                                                          *)

Users == {1, 2}

DevicesFile == "devices.json"
\* self.devices_file.with_suffix(".tmp")
TempFile == "devices.tmp"
FileNames == {DevicesFile, TempFile}

NoInode == 0
Inodes == 1..(Cardinality(Users) + 1)

\* an argument: None, or a value
NoneArg == [none |-> TRUE, val |-> ""]
Given(v) == [none |-> FALSE, val |-> v]

\* `if group is not None` read as `if group`
IsGivenTruthy(arg) == ~arg.none /\ Len(arg.val) > 0

\* `group is not None`, `tags is not None`, `description is not None`
IsGiven(arg) == ~arg.none

\* `x or default` in _serialize_device
OrElse(arg, default) ==
    IF ~arg.none /\ Len(arg.val) > 0 THEN arg.val ELSE default

\* datetime.now().isoformat() at the time of the call, and the time stamp of
\* the entries stored before
Now == "2026-11-01T12:00:00"
Earlier == "2026-10-01T08:00:00"

\* _serialize_device(device, group, tags, description) for a device that
\* carries no description, tags or group attribute of its own
serialize_device(onvif_device, group, tags, description) ==
    [address |-> onvif_device.address,
     name |-> onvif_device.name,
     last_seen |-> Now,
     description |-> OrElse(description, ""),
     tags |-> OrElse(tags, <<>>),
     group |-> OrElse(group, "default")]

NoEntry ==
    [address |-> "", name |-> "", last_seen |-> "", description |-> "",
     tags |-> <<>>, group |-> ""]

OpenBrace == [t |-> "{", entry |-> NoEntry]
CloseBrace == [t |-> "}", entry |-> NoEntry]
\* a byte of a hole: what a write beyond the end of a file leaves before it
NulToken == [t |-> "NUL", entry |-> NoEntry]
EntryToken(e) == [t |-> "entry", entry |-> e]

\* json.dump(devices, f, indent=2): the entries in the dict's order
json_dump(devices) ==
    <<OpenBrace>> \o [i \in 1..Len(devices) |-> EntryToken(devices[i])]
        \o <<CloseBrace>>

\* json.load accepts the content: one object, opened and closed
IsWellFormed(content) ==
    /\ Len(content) >= 2
    /\ content[1] = OpenBrace
    /\ content[Len(content)] = CloseBrace
    /\ \A i \in 2..(Len(content) - 1) : content[i].t = "entry"

\* json.load of a well-formed content: a key that occurs again keeps its
\* place and takes the later value
json_load(content) ==
    LET entries == [i \in 1..(Len(content) - 2) |-> content[i + 1].entry]
        IsFirst(i) == \A j \in 1..(i - 1) : entries[j].address # entries[i].address
        LastOf(i) ==
            LET same == {j \in DOMAIN entries : entries[j].address = entries[i].address}
            IN  entries[CHOOSE j \in same : \A k \in same : k <= j]
        RECURSIVE Collect(_)
        Collect(i) ==
            IF i > Len(entries) THEN <<>>
            ELSE IF IsFirst(i) THEN <<LastOf(i)>> \o Collect(i + 1)
            ELSE Collect(i + 1)
    IN  Collect(1)

\* address in devices
HasAddress(devices, address) ==
    \E i \in DOMAIN devices : devices[i].address = address

\* devices[address]
EntryOf(devices, address) ==
    devices[CHOOSE i \in DOMAIN devices : devices[i].address = address]

\* devices[address] = entry: a known key keeps its place
SetEntry(devices, entry) ==
    IF HasAddress(devices, entry.address)
    THEN [i \in DOMAIN devices |->
            IF devices[i].address = entry.address THEN entry ELSE devices[i]]
    ELSE Append(devices, entry)

\* del devices[address]
DelEntry(devices, address) ==
    LET Others(e) == e.address # address IN SelectSeq(devices, Others)

\* update_device_metadata lines 210-216 on devices[address]
UpdatedEntry(old, group, tags, description) ==
    [old EXCEPT !.group = IF IsGiven(group) THEN group.val ELSE @,
                !.tags = IF IsGiven(tags) THEN tags.val ELSE @,
                !.description = IF IsGiven(description) THEN description.val ELSE @]

\* the number of tokens the buffered file object holds before it hands them
\* to the file; what is left goes out when the file is closed.  A document
\* longer than the buffer reaches the file in several writes.
BufferTokens == 2

\* write(chunk) at an offset of a file: a hole before the offset is filled
\* with NULs, what lies behind the chunk stays
WriteAt(content, offset, chunk) ==
    LET padded == IF Len(content) < offset
                  THEN content \o [i \in 1..(offset - Len(content)) |-> NulToken]
                  ELSE content
    IN  SubSeq(padded, 1, offset) \o chunk
            \o SubSeq(padded, offset + Len(chunk) + 1, Len(padded))

ManagerAddresses == {"192.168.1.10", "192.168.1.11"}

StoredA ==
    [address |-> "192.168.1.10", name |-> "Cam A", last_seen |-> Earlier,
     description |-> "gate", tags |-> <<"outdoor">>, group |-> "default"]
StoredB ==
    [address |-> "192.168.1.11", name |-> "Cam B", last_seen |-> Earlier,
     description |-> "", tags |-> <<>>, group |-> "lab"]

\* what devices.json holds when the calls are made; NoFile: it does not exist
NoFile == <<[t |-> "<no file>", entry |-> NoEntry]>>
StoredDocuments ==
    {NoFile, json_dump(<<>>), json_dump(<<StoredA>>), json_dump(<<StoredA, StoredB>>)}

ManagerDevices ==
    {[address |-> a, name |-> "Cam"] : a \in ManagerAddresses}

NoOp ==
    [kind |-> "none", address |-> "", name |-> "", group |-> NoneArg,
     tags |-> NoneArg, description |-> NoneArg]
AddOp(onvif_device, group, tags, description) ==
    [kind |-> "add", address |-> onvif_device.address, name |-> onvif_device.name,
     group |-> group, tags |-> tags, description |-> description]
DeleteOp(address) ==
    [kind |-> "delete", address |-> address, name |-> "", group |-> NoneArg,
     tags |-> NoneArg, description |-> NoneArg]
UpdateOp(address, group, tags, description) ==
    [kind |-> "update", address |-> address, name |-> "", group |-> group,
     tags |-> tags, description |-> description]

GroupArgs == {NoneArg, Given(""), Given("lab")}
TagsArgs == {NoneArg, Given(<<>>), Given(<<"indoor">>)}
DescriptionArgs == {NoneArg, Given(""), Given("door")}

\* the calls one user alone is checked on
SoloOps ==
    {AddOp(d, g, t, NoneArg) : d \in ManagerDevices,
        g \in {Given("default"), Given("lab")}, t \in {NoneArg, Given(<<"indoor">>)}}
    \cup {DeleteOp(a) : a \in ManagerAddresses}
    \cup {UpdateOp(a, g, t, d) : a \in ManagerAddresses, g \in GroupArgs,
            t \in TagsArgs, d \in DescriptionArgs}

\* the calls two users make at the same time
ConcurrentOps ==
    {AddOp(d, Given("default"), NoneArg, NoneArg) : d \in ManagerDevices}
    \cup {DeleteOp(a) : a \in ManagerAddresses}
    \cup {UpdateOp(a, Given("lab"), NoneArg, NoneArg) : a \in ManagerAddresses}

ManagerIdle ==
    /\ dmPc = [u \in Users |-> "off"]
    /\ dmOp = [u \in Users |-> NoOp]
    /\ dmDevices = [u \in Users |-> <<>>]
    /\ dmFd = [u \in Users |-> NoInode]
    /\ dmOffset = [u \in Users |-> 0]
    /\ dmRet = [u \in Users |-> "none"]
    /\ fsNames = [n \in FileNames |-> NoInode]
    /\ fsData = [i \in Inodes |-> <<>>]
    /\ fsAtStart = NoFile

\* the directory as the calls find it, and the calls
InitFiles ==
    /\ fsAtStart \in StoredDocuments
    /\ fsNames = [n \in FileNames |->
                    IF n = DevicesFile /\ fsAtStart # NoFile THEN 1 ELSE NoInode]
    /\ fsData = [i \in Inodes |-> IF i = 1 /\ fsAtStart # NoFile THEN fsAtStart ELSE <<>>]
    /\ dmDevices = [u \in Users |-> <<>>]
    /\ dmFd = [u \in Users |-> NoInode]
    /\ dmOffset = [u \in Users |-> 0]
    /\ dmRet = [u \in Users |-> "none"]

\* two DeviceManager users of the directory, one call each
InitManager ==
    /\ InitFiles
    /\ dmOp \in [Users -> ConcurrentOps]
    /\ dmPc = [u \in Users |-> "call"]

\* one user, one call
InitManagerSolo ==
    /\ InitFiles
    /\ \E op \in SoloOps : dmOp = [u \in Users |-> IF u = 1 THEN op ELSE NoOp]
    /\ dmPc = [u \in Users |-> IF u = 1 THEN "call" ELSE "off"]

\* load_devices: {} when the file does not exist or json.load raises
load_devices ==
    IF fsNames[DevicesFile] = NoInode THEN <<>>
    ELSE IF IsWellFormed(fsData[fsNames[DevicesFile]])
    THEN json_load(fsData[fsNames[DevicesFile]])
    ELSE <<>>

\* the call is entered: load_devices, then the change to the loaded dict;
\* delete_device and update_device_metadata return False for an address
\* that is not in it
LoadAndChange(u) ==
    /\ dmPc[u] = "call"
    /\ LET op == dmOp[u]
           devices == load_devices
           missing == op.kind \in {"delete", "update"}
                        /\ ~HasAddress(devices, op.address)
           changed ==
               IF op.kind = "add"
               THEN SetEntry(devices,
                        serialize_device([address |-> op.address, name |-> op.name],
                                         op.group, op.tags, op.description))
               ELSE IF op.kind = "delete" THEN DelEntry(devices, op.address)
               ELSE SetEntry(devices,
                        UpdatedEntry(EntryOf(devices, op.address), op.group,
                                     op.tags, op.description))
       IN  IF missing
           THEN /\ dmRet' = [dmRet EXCEPT ![u] = "False"]
                /\ dmPc' = [dmPc EXCEPT ![u] = "done"]
                /\ dmDevices' = [dmDevices EXCEPT ![u] = devices]
           ELSE /\ dmDevices' = [dmDevices EXCEPT ![u] = changed]
                /\ dmPc' = [dmPc EXCEPT ![u] = "open"]
                /\ UNCHANGED dmRet
    /\ UNCHANGED <<dmOp, dmFd, dmOffset, fsNames, fsData, fsAtStart>>
    /\ UNCHANGED <<soapVars, lookupVars, endpointVars, frameVars>>
    /\ UNCHANGED <<matchVars, classVars, hardVars, normVars, pipeVars>>

\* open(temp_file, "w"): devices.tmp is created, or, when the name exists,
\* the file it names is emptied
OpenTemp(u) ==
    /\ dmPc[u] = "open"
    /\ LET held == {dmFd[v] : v \in Users} \cup {fsNames[n] : n \in FileNames}
           fresh == CHOOSE i \in Inodes \ held : \A j \in Inodes \ held : i <= j
           inode == IF fsNames[TempFile] = NoInode THEN fresh ELSE fsNames[TempFile]
       IN  /\ fsNames' = [fsNames EXCEPT ![TempFile] = inode]
           /\ fsData' = [fsData EXCEPT ![inode] = <<>>]
           /\ dmFd' = [dmFd EXCEPT ![u] = inode]
    /\ dmOffset' = [dmOffset EXCEPT ![u] = 0]
    /\ dmPc' = [dmPc EXCEPT ![u] = "dump"]
    /\ UNCHANGED <<dmOp, dmDevices, dmRet, fsAtStart>>
    /\ UNCHANGED <<soapVars, lookupVars, endpointVars, frameVars>>
    /\ UNCHANGED <<matchVars, classVars, hardVars, normVars, pipeVars>>

\* json.dump(devices, f) and the end of the with block: the next buffer of
\* the document goes to the open file at the writer's offset; with the last
\* one the file is closed
Flush(u) ==
    /\ dmPc[u] = "dump"
    /\ LET document == json_dump(dmDevices[u])
           pending == SubSeq(document, dmOffset[u] + 1, Len(document))
           chunk == IF Len(pending) > BufferTokens
                    THEN SubSeq(pending, 1, BufferTokens)
                    ELSE pending
           last == Len(pending) <= BufferTokens
       IN  /\ fsData' = [fsData EXCEPT ![dmFd[u]] = WriteAt(@, dmOffset[u], chunk)]
           /\ dmOffset' = [dmOffset EXCEPT ![u] = @ + Len(chunk)]
           /\ dmFd' = [dmFd EXCEPT ![u] = IF last THEN NoInode ELSE @]
           /\ dmPc' = [dmPc EXCEPT ![u] = IF last THEN "replace" ELSE "dump"]
    /\ UNCHANGED <<dmOp, dmDevices, dmRet, fsNames, fsAtStart>>
    /\ UNCHANGED <<soapVars, lookupVars, endpointVars, frameVars>>
    /\ UNCHANGED <<matchVars, classVars, hardVars, normVars, pipeVars>>

\* temp_file.replace(self.devices_file) and return True; when devices.tmp is
\* gone, FileNotFoundError, caught by `except Exception`: return False
ReplaceFile(u) ==
    /\ dmPc[u] = "replace"
    /\ IF fsNames[TempFile] = NoInode
       THEN /\ dmRet' = [dmRet EXCEPT ![u] = "False"]
            /\ UNCHANGED <<fsNames, fsData>>
       ELSE /\ fsNames' = [n \in FileNames |->
                            IF n = DevicesFile THEN fsNames[TempFile] ELSE NoInode]
            /\ fsData' = [i \in Inodes |->
                            IF i = fsNames[DevicesFile] /\ i # fsNames[TempFile]
                               /\ \A v \in Users : dmFd[v] # i
                            THEN <<>> ELSE fsData[i]]
            /\ dmRet' = [dmRet EXCEPT ![u] = "True"]
    /\ dmPc' = [dmPc EXCEPT ![u] = "done"]
    /\ UNCHANGED <<dmOp, dmDevices, dmFd, dmOffset, fsAtStart>>
    /\ UNCHANGED <<soapVars, lookupVars, endpointVars, frameVars>>
    /\ UNCHANGED <<matchVars, classVars, hardVars, normVars, pipeVars>>

-----------------------------------------------------------------------------
Next ==
    \/ CaptureStart
    \/ TrySnapshotUrl
    \/ ProbeExhausted
    \/ FetchSnapshot
    \/ GetProfilesRequest
    \/ ProfilesExhausted
    \/ StreamUriRequest
    \/ ResolveExhausted
    \/ AfterResolve

PipelineInit ==
    /\ MatchIdle /\ ClassIdle /\ HardIdle /\ NormIdle /\ Init
    /\ SoapIdle /\ LookupIdle /\ EndpointIdle /\ FrameIdle /\ ManagerIdle

Spec ==
    /\ PipelineInit
    /\ [][Next]_vars

NextMatch == MGetContext \/ MGetAllPaths

MatchInit ==
    /\ InitMatch /\ ClassIdle /\ HardIdle /\ NormIdle /\ PipeIdle
    /\ SoapIdle /\ LookupIdle /\ EndpointIdle /\ FrameIdle /\ ManagerIdle

SpecMatch ==
    /\ MatchInit
    /\ [][NextMatch]_vars

NextClassify == Classify

NextNormalize == Normalize \/ NormalizeAgain

NormalizeInit ==
    /\ MatchIdle /\ ClassIdle /\ HardIdle /\ InitNormalize /\ PipeIdle
    /\ SoapIdle /\ LookupIdle /\ EndpointIdle /\ FrameIdle /\ ManagerIdle

SpecNormalize ==
    /\ NormalizeInit
    /\ [][NextNormalize]_vars

NextHardened == HCall \/ HIter \/ HLoopEnd

HardenedInit ==
    /\ MatchIdle /\ ClassIdle /\ InitHardened /\ NormIdle /\ PipeIdle
    /\ SoapIdle /\ LookupIdle /\ EndpointIdle /\ FrameIdle /\ ManagerIdle

SpecHardened ==
    /\ HardenedInit
    /\ [][NextHardened]_vars

ClassifyInit ==
    /\ MatchIdle /\ InitClassify /\ HardIdle /\ NormIdle /\ PipeIdle
    /\ SoapIdle /\ LookupIdle /\ EndpointIdle /\ FrameIdle /\ ManagerIdle

SpecClassify ==
    /\ ClassifyInit
    /\ [][NextClassify]_vars

NextSoap == CreateSoapRequest

SoapInit ==
    /\ MatchIdle /\ ClassIdle /\ HardIdle /\ NormIdle /\ PipeIdle
    /\ InitSoap /\ LookupIdle /\ EndpointIdle /\ FrameIdle /\ ManagerIdle

SpecSoap ==
    /\ SoapInit
    /\ [][NextSoap]_vars

NextLookup == LookupProfiles

LookupInit ==
    /\ MatchIdle /\ ClassIdle /\ HardIdle /\ NormIdle /\ PipeIdle
    /\ SoapIdle /\ InitLookup /\ EndpointIdle /\ FrameIdle /\ ManagerIdle

SpecLookup ==
    /\ LookupInit
    /\ [][NextLookup]_vars

NextFrame == FrameRun \/ FrameReturn

FrameInit ==
    /\ MatchIdle /\ ClassIdle /\ HardIdle /\ NormIdle /\ PipeIdle
    /\ SoapIdle /\ LookupIdle /\ EndpointIdle /\ InitFrame /\ ManagerIdle

SpecFrame ==
    /\ FrameInit
    /\ [][NextFrame]_vars

\* once subprocess.run has been called, the call goes on as soon as
\* subprocess.run comes back: the interpreter does not stop by itself
SpecFrameLive ==
    /\ FrameInit
    /\ [][NextFrame]_vars
    /\ WF_vars(FrameReturn)

NextEndpoints == GetEndpoints

EndpointsInit ==
    /\ MatchIdle /\ ClassIdle /\ HardIdle /\ NormIdle /\ PipeIdle
    /\ SoapIdle /\ LookupIdle /\ InitEndpoints /\ FrameIdle /\ ManagerIdle

SpecEndpoints ==
    /\ EndpointsInit
    /\ [][NextEndpoints]_vars

NextManager ==
    \E u \in Users :
        \/ LoadAndChange(u)
        \/ OpenTemp(u)
        \/ Flush(u)
        \/ ReplaceFile(u)

ManagerInit ==
    /\ MatchIdle /\ ClassIdle /\ HardIdle /\ NormIdle /\ PipeIdle
    /\ SoapIdle /\ LookupIdle /\ EndpointIdle /\ FrameIdle /\ InitManager

\* two users of one config directory: their steps interleave in any order
SpecManager ==
    /\ ManagerInit
    /\ [][NextManager]_vars

ManagerSoloInit ==
    /\ MatchIdle /\ ClassIdle /\ HardIdle /\ NormIdle /\ PipeIdle
    /\ SoapIdle /\ LookupIdle /\ EndpointIdle /\ FrameIdle /\ InitManagerSolo

\* one user
SpecManagerSolo ==
    /\ ManagerSoloInit
    /\ [][NextManager]_vars

-----------------------------------------------------------------------------
(* Claims about the matcher *)

\* keyword kw occurs in name at offset i, compared character by character
\* without regard to letter case
OccursAt(kw, name, i) ==
    /\ i + Len(kw) <= Len(name)
    /\ \A j \in 1..Len(kw) : LowerChar(Char(name, i + j)) = LowerChar(Char(kw, j))

\* some keyword of catalog profile k occurs somewhere in name
NameHasKeywordOf(k, name) ==
    \E n \in DOMAIN DEVICE_CONTEXTS[k].keywords :
        \E i \in 0..Len(name) : OccursAt(DEVICE_CONTEXTS[k].keywords[n], name, i)

\* C1: get_context returns generic exactly when the device name is empty or
\* holds no keyword of any catalog profile (case-insensitive substring), and
\* otherwise the first profile in catalog order one of whose keywords the
\* name holds, which is never generic.
C1_GetContextKeywordDriven ==
    mPc # "start" =>
        /\ mCtx \in DOMAIN DEVICE_CONTEXTS
        /\ mCtx = "generic" <=>
              (mName = "" \/ \A k \in DOMAIN DEVICE_CONTEXTS : ~NameHasKeywordOf(k, mName))
        /\ mCtx # "generic" =>
              \E i \in DOMAIN CatalogOrder :
                  /\ CatalogOrder[i] = mCtx
                  /\ NameHasKeywordOf(mCtx, mName)
                  /\ \A j \in 1..(i - 1) : ~NameHasKeywordOf(CatalogOrder[j], mName)

\* a mixed-case name holding keywords of two vendors is given the vendor that
\* comes first in the catalog
C1_Witness ==
    /\ mPc = "matched"
    /\ mName = "DAHUAHik"
    /\ mCtx = "hikvision"

IsDuplicateFree(xs) == \A i, j \in DOMAIN xs : i # j => xs[i] # xs[j]

\* C2: for a vendor profile get_all_paths is the profile's own paths followed by
\* the generic paths not among them, in their original order, with no path
\* twice; for the generic profile it is the generic paths unchanged.
C2_ExpandedPaths ==
    mPc = "expanded" =>
        LET own == DEVICE_CONTEXTS[mCtx].paths
            gen == DEVICE_CONTEXTS["generic"].paths
            Unseen(p) == p \notin Range(own)
        IN  /\ IsDuplicateFree(mPaths)
            /\ IF mCtx = "generic" THEN mPaths = gen
               ELSE mPaths = own \o SelectSeq(gen, Unseen)

\* a vendor whose own paths overlap the generic ones
C2_Witness ==
    /\ mPc = "expanded"
    /\ mCtx = "cp-plus"
    /\ Len(mPaths) < Len(DEVICE_CONTEXTS["cp-plus"].paths)
                     + Len(DEVICE_CONTEXTS["generic"].paths)
    /\ Len(mPaths) > Len(DEVICE_CONTEXTS["cp-plus"].paths)


-----------------------------------------------------------------------------
(* Claims about the validation of a response *)

-----------------------------------------------------------------------------
(* Claims about the retrying prober *)

GetCount == Cardinality({i \in DOMAIN hLog : hLog[i].op = "GET"})

Is401(o) == o.kind = "response" /\ o.resp.status = 401

\* the device answers attempt k with 401, and no earlier attempt ended the call
First401At(k) ==
    /\ k \in DOMAIN hScript
    /\ Is401(hScript[k])
    /\ \A j \in 1..(k - 1) :
          ~Is401(hScript[j])
          /\ ~(hScript[j].kind = "response" /\ HardenedIsHit(hScript[j].resp))

\* C7 as claimed: a call on a URL that answers 401 sends nothing more to
\* that URL after the 401 and returns None to its caller.
C7_Return401AsMiss ==
    \A k \in 1..MaxRetriesBound + 1 :
        (hPc = "done" /\ First401At(k)) => (hResult = "None" /\ GetCount = k)

\* C8 as claimed: whatever the attempts' outcomes, the call sends at most
\* max_retries GET requests and then returns (image bytes or None).
C8_BoundedAttemptsThenReturn ==
    /\ GetCount <= hMaxRetries
    /\ hPc = "done" => hResult \in {"None", "content"}


-----------------------------------------------------------------------------
(* Claims about stream URL normalization *)

\* the authority of an rtsp:// URL names a port
HasExplicitPort(url) ==
    LET authority == SubSeq(url, 8, IndexOfAny(url, {"/", "?", "#"}, 8) - 1)
        host == SubSeq(authority, LastIndexOf(authority, "@") + 1, Len(authority))
        colon == IndexOfAny(host, {":"}, 1)
    IN  colon < Len(host) /\ IsInt(SubSeq(host, colon + 1, Len(host)))

\* url with :554 put right after its authority
WithPort554(url) ==
    LET authorityEnd == IndexOfAny(url, {"/", "?", "#"}, 8)
    IN  SubSeq(url, 1, authorityEnd - 1) \o ":554"
            \o SubSeq(url, authorityEnd, Len(url))

\* C9 as claimed: a URI that is not rtsp://-qualified becomes
\* rtsp://<device host>:554<path>; an rtsp:// URL without an explicit port
\* becomes the same URL with port 554; an rtsp:// URL with an explicit port
\* is returned unchanged.
C9_NormalizeGivesSameUrlWithPort ==
    nPc = "done" =>
        IF ~StartsWith(nUrl, "rtsp://")
        THEN nOut = "rtsp://" \o nHost \o ":554"
                      \o (IF StartsWith(nUrl, "/") THEN nUrl ELSE "/" \o nUrl)
        ELSE IF HasExplicitPort(nUrl) THEN nOut = nUrl
        ELSE nOut = WithPort554(nUrl)

\* the three inputs the specification names come out as it says
C9_NamedExamples ==
    /\ normalize_rtsp_url("/stream1", "cam1") = "rtsp://cam1:554/stream1"
    /\ normalize_rtsp_url("rtsp://cam1/stream1", "cam1") = "rtsp://cam1:554/stream1"
    /\ normalize_rtsp_url("rtsp://cam1:8554/stream1", "cam1") = "rtsp://cam1:8554/stream1"


-----------------------------------------------------------------------------
(* Claims about the pipeline's direct probing and stream resolution *)

\* the port a device URL was discovered on: the one it names, or else the
\* default port of its scheme
DiscoveryPort(url) ==
    IF HasExplicitPort(url)
    THEN LET authority == SubSeq(url, 8, IndexOfAny(url, {"/", "?", "#"}, 8) - 1)
         IN  ParseInt(SubSeq(authority, IndexOfAny(authority, {":"}, 1) + 1,
                             Len(authority)))
    ELSE IF StartsWith(url, "https://") THEN 443 ELSE 80

\* C3 as claimed: for every device URL and vendor profile the probe port
\* sequence starts with the port the device was discovered on and holds no
\* port twice.
C3_ProbePortsStartWithDevicePort ==
    (pc \notin {"idle", "init"} /\ ports # <<>>) =>
        /\ ports[1] = DiscoveryPort(device.url)
        /\ IsDuplicateFree(ports)

Probes == LET IsProbe(e) == e.op = "probe" IN SelectSeq(log, IsProbe)

\* C4: probing goes through the (port, path) combinations with ports outer
\* and paths inner, asks for each at most once, asks for nothing after the
\* first hit and returns that hit's URL, and returns None only when every
\* combination was tried without a hit.
C4_NestedProbingStopsAtFirstHit ==
    (pc \notin {"idle", "init"} /\ ports # <<>>) =>
        LET n == Len(paths)
            total == Len(ports) * n
            P == Probes
        IN  /\ Len(P) <= total
            /\ \A k \in DOMAIN P :
                  /\ P[k].port = ports[((k - 1) \div n) + 1]
                  /\ P[k].path = paths[((k - 1) % n) + 1]
            /\ \A j, k \in DOMAIN P :
                  j # k => <<P[j].port, P[j].path>> # <<P[k].port, P[k].path>>
            /\ \A k \in 1..(Len(P) - 1) : ~P[k].hit
            /\ (pc # "probe" /\ snapshotUrl # PyNone) =>
                  /\ P # <<>>
                  /\ P[Len(P)].hit
                  /\ snapshotUrl = "http://192.168.1.64:"
                        \o ToStr(P[Len(P)].port) \o P[Len(P)].path
            /\ (pc # "probe" /\ snapshotUrl = PyNone) =>
                  /\ Len(P) = total
                  /\ \A k \in DOMAIN P : ~P[k].hit

\* probing missed on every path of the first port and hit on the second
\* path of the second port
C4_Witness ==
    /\ pc = "fetch"
    /\ Len(Probes) = Len(paths) + 2
    /\ Probes[Len(Probes)].hit
    /\ Probes[Len(Probes)].port = ports[2]

\* C10 as claimed: whenever the device answered the stream resolver with a
\* Uri, what the resolver returns is an rtsp:// URL with an explicit port; a
\* Uri that is a path comes back as rtsp://<device host>:554<path>.
C10_ResolverReturnsQualifiedUrl ==
    (pc = "resolved" /\ uriSeen # "") =>
        /\ rtspUrl # PyNone
        /\ StartsWith(rtspUrl, "rtsp://")
        /\ HasExplicitPort(rtspUrl)
        /\ StartsWith(uriSeen, "/") =>
              rtspUrl = "rtsp://192.168.1.64:554" \o uriSeen

-----------------------------------------------------------------------------
(* Claims about the stages of capture_snapshot *)

SoapRequests ==
    LET IsSoap(e) == e.op \in {"GetProfiles", "GetStreamUri"}
    IN  SelectSeq(log, IsSoap)

Extractions == LET IsFfmpeg(e) == e.op = "ffmpeg" IN SelectSeq(log, IsFfmpeg)

C12_HitEndsInDirectSuccess ==
    /\ (pc = "done" /\ \E k \in DOMAIN Probes : Probes[k].hit) =>
          /\ result.status = "success"
          /\ result.via = "direct"
          /\ result.source = snapshotUrl
          /\ SoapRequests = <<>>
          /\ Extractions = <<>>
    /\ (device.name = "Hikvision-X" /\ DiscoveryPort(device.url) = 80
          /\ Probes # <<>>) =>
          /\ Probes[1].port = 80
          /\ Probes[1].path = "/ISAPI/Streaming/channels/101/picture"

\* C13 as claimed: when every probe missed, profile enumeration gave one
\* token, a GetStreamUri response carried a path as its Uri and no frame
\* extraction reported failure, the invocation ends in success through RTSP.
C13_RtspFallbackSucceeds ==
    (/\ pc = "done"
     /\ Probes # <<>>
     /\ \A k \in DOMAIN Probes : ~Probes[k].hit
     /\ Len(profiles) = 1
     /\ StartsWith(uriSeen, "/")
     /\ \A k \in DOMAIN Extractions : Extractions[k].hit) =>
        /\ result.status = "success"
        /\ result.via = "rtsp"

StreamCalls ==
    LET IsStreamCall(e) == e.op \in {"GetStreamUri", "ffmpeg"}
    IN  SelectSeq(log, IsStreamCall)

TokenIndex(token) == CHOOSE i \in DOMAIN profiles : profiles[i] = token

\* C14: the profile tokens are processed in list order; frame extraction
\* runs at most once per token and only on a resolved stream URL; nothing
\* is processed after an extraction success; and the stage ends in failure
\* exactly when the tokens ran out without an extraction success, the empty
\* profile list included, for which frame extraction never runs.
C14_TokensInOrderOneExtractionEach ==
    LET S == StreamCalls
        E == Extractions
        G == LET IsGetProfiles(e) == e.op = "GetProfiles" IN SelectSeq(log, IsGetProfiles)
    IN  /\ \A j, k \in DOMAIN S :
              j < k => TokenIndex(S[j].token) <= TokenIndex(S[k].token)
        /\ \A j, k \in DOMAIN E : j # k => E[j].token # E[k].token
        /\ \A k \in DOMAIN E : E[k].path \notin {PyNone, ""}
        /\ \A k \in 1..(Len(S) - 1) : ~(S[k].op = "ffmpeg" /\ S[k].hit)
        /\ (pc = "done" /\ G # <<>>) =>
              /\ result.status = "failure" <=> \A k \in DOMAIN E : ~E[k].hit
              /\ result.status = "failure" =>
                    \A i \in DOMAIN profiles :
                        \E k \in DOMAIN S : S[k].token = profiles[i]
              /\ profiles = <<>> => (E = <<>> /\ result.status = "failure")

\* two tokens were processed, the first before the second, and the
\* invocation ended in failure
C14_Witness ==
    /\ pc = "done"
    /\ result.status = "failure"
    /\ Len(profiles) = 2
    /\ \E j, k \in DOMAIN StreamCalls :
          /\ j < k
          /\ StreamCalls[j].token = profiles[1]
          /\ StreamCalls[k].token = profiles[2]

\* C15 as claimed: an invocation with a credential that saved no image
\* from direct fetch has run profile enumeration before it ends.
C15_RequestErrorsNeverEndInvocation ==
    (/\ pc = "done"
     /\ device.creds # <<>>
     /\ ~(result.status = "success" /\ result.via = "direct")) =>
        \E k \in DOMAIN log : log[k].op = "GetProfiles"

\* C16 as claimed: the response saved on a success through direct fetch
\* passed the full validation: status 200, an image/ content type, and a
\* declared or actual body length above the minimum.
C16_DirectSuccessSavedAValidatedImage ==
    (result.status = "success" /\ result.via = "direct") =>
        /\ result.resp.status = 200
        /\ StartsWith(HeaderGet(result.resp.ctype, ""), "image/")
        /\ \/ (IsInt(HeaderGet(result.resp.clen, "0"))
                 /\ ParseInt(HeaderGet(result.resp.clen, "0")) > MinContentLength)
           \/ result.resp.body.length > MinContentLength

\* the requests of one SOAP operation for one token went to the media
\* service paths in catalog order and stopped at the first response that
\* carried what was asked for
InOrderFirstWins(requests) ==
    LET services == DEVICE_CONTEXTS[context].media_services
    IN  /\ Len(requests) <= Len(services)
        /\ \A k \in DOMAIN requests : requests[k].path = services[k]
        /\ \A k \in 1..(Len(requests) - 1) : ~requests[k].hit

RequestsOf(op, token) ==
    LET Wanted(e) == e.op = op /\ e.token = token IN SelectSeq(log, Wanted)

\* C19 as claimed: both SOAP lookups go through the media service paths in
\* catalog order, send nothing to a later path once a path's response
\* carried a profile with a token (respectively a non-empty Uri), and
\* return the empty result only after every path was tried.
C19_ServicesInOrderFirstSuccessWins ==
    LET services == DEVICE_CONTEXTS[context].media_services
    IN  /\ InOrderFirstWins(RequestsOf("GetProfiles", ""))
        /\ \A i \in DOMAIN profiles :
              InOrderFirstWins(RequestsOf("GetStreamUri", profiles[i]))
        /\ (pc = "done" /\ profiles = <<>> /\ SoapRequests # <<>>) =>
              Len(RequestsOf("GetProfiles", "")) = Len(services)
        /\ (pc = "resolved" /\ rtspUrl = PyNone) =>
              Len(RequestsOf("GetStreamUri", profiles[tokIx])) = Len(services)

-----------------------------------------------------------------------------
(* Claims about the SOAP helper, the profile lookup and the endpoints *)

\* C17: _create_soap_request returns the parsed document when the status
\* is 200 and the body parses, and returns None, raising nothing, on every
\* other status, on a transport failure and on a body that does not parse.
C17_SoapRequestDocumentOrNone ==
    sPc = "done" =>
        /\ sReturn.kind \in {"document", "None"}
        /\ IF /\ sOutcome.kind = "response"
              /\ sOutcome.status = 200
              /\ sOutcome.body.wellformed
           THEN sReturn = [kind |-> "document", doc |-> sOutcome.body.doc]
           ELSE sReturn.kind = "None"

\* a 200 response with a parsable body came back as its document
C17_Witness ==
    /\ sPc = "done"
    /\ sOutcome.status = 200
    /\ sReturn.kind = "document"
    /\ sReturn.doc # <<>>

\* C18 as claimed: a GetProfiles response all of whose profile elements
\* carry a token yields profile tokens from both lookups, whatever the
\* namespace of the elements, none included.
C18_ProfileLookupNamespaceTolerant ==
    (/\ gPc = "done"
     /\ gDoc # <<>>
     /\ \A i \in DOMAIN gDoc : gDoc[i].token # "") =>
        /\ gHandler # <<>>
        /\ gPipeline # <<>>

\* C20 as claimed: whatever the capabilities response, the snapshot
\* endpoints hold every well-known fallback path on the device's base URL
\* and every advertised snapshot URI, and the stream endpoints hold every
\* well-known RTSP fallback path on port 554.
C20_EndpointsIncludeFallbacks ==
    ePc = "done" =>
        /\ \A i \in DOMAIN SnapshotCommonPaths :
              \E u \in eSnapshot :
                  u \in {"http://192.168.1.64" \o SnapshotCommonPaths[i],
                         "http://192.168.1.64:" \o ToStr(DiscoveryPort(eUrl))
                             \o SnapshotCommonPaths[i]}
        /\ \A i \in DOMAIN eDoc :
              (eDoc[i].tag = "SnapshotUri" /\ StartsWith(eDoc[i].uri, "http")) =>
                  eDoc[i].uri \in eSnapshot
        /\ \A i \in DOMAIN StreamCommonPaths :
              ("rtsp://192.168.1.64:554" \o StreamCommonPaths[i]) \in eStream

-----------------------------------------------------------------------------
(* Claims about frame extraction *)

\* C21 as claimed: once the frame-extraction process has been started, the
\* call that waits for it returns, a process that never exits included, so
\* that capture_snapshot reaches Done.
C21_FrameExtractionAlwaysReturns == (fPc = "running") ~> (fPc = "done")

\* the userinfo of a URL: what its authority holds before the last @
UserInfoOf(url) ==
    LET netloc == UrlNetloc(url)
        at == LastIndexOf(netloc, "@")
    IN  IF at = 0 THEN "" ELSE SubSeq(netloc, 1, at - 1)

\* C22 as claimed: the URL handed to the frame-extraction process carries
\* the credential's username and password as its userinfo, and the process
\* is told to overwrite the output file.
C22_CommandCarriesCredentials ==
    fPc \in {"running", "done"} =>
        /\ UserInfoOf(fCmd[6]) = fAuth[1] \o ":" \o fAuth[2]
        /\ \E i \in DOMAIN fCmd : fCmd[i] = "-y"

\* C23: no step of capture_snapshot, the calls of get_context and
\* get_all_paths it makes included, changes the vendor catalog (keywords,
\* ports, paths and media service paths of every entry) or the Device it
\* was given (name, urls, valid_credentials).
C23_CatalogAndDeviceUnchanged ==
    [][catalog' = catalog /\ device' = device]_vars

\* a vendor context was selected, get_all_paths returned its paths with the
\* generic ones appended, the invocation ran to its end, and the catalog is
\* the one of start-up
C23_Witness ==
    /\ pc = "done" /\ log # <<>>
    /\ context \notin {"", "generic"}
    /\ Len(paths) > Len(DEVICE_CONTEXTS[context].paths)
    /\ catalog = DEVICE_CONTEXTS

\* the stage a logged request belongs to: 1 direct fetch (probe and fetch
\* GETs), 2 profile enumeration (GetProfiles), 3 stream capture
\* (GetStreamUri and ffmpeg, per token)
StageOf(e) ==
    CASE e.op \in {"probe", "fetch"} -> 1
      [] e.op = "GetProfiles" -> 2
      [] OTHER -> 3

DirectRequests == LET IsDirect(e) == StageOf(e) = 1 IN SelectSeq(log, IsDirect)

\* C24: within one invocation the requests come in stage order (direct
\* fetch, then profile enumeration, then stream capture); a SOAP request is
\* sent only after the direct stage ended without a saved image (every
\* combination probed without a hit, or the hit's URL fetched and not
\* saved); and ffmpeg runs only on a resolved stream URL, for a token of a
\* non-empty profile list, after the GetStreamUri requests for that token.
C24_StagesInOrder ==
    /\ \A i \in 1..(Len(log) - 1) : StageOf(log[i]) <= StageOf(log[i + 1])
    /\ (\E i \in DOMAIN log : StageOf(log[i]) > 1) =>
          LET direct == DirectRequests
          IN  /\ result.via # "direct"
              /\ pc \notin {"probe", "fetch"}
              /\ direct # <<>>
              /\ \/ direct[Len(direct)].op = "fetch"
                 \/ /\ \A k \in DOMAIN direct : ~direct[k].hit
                    /\ Len(direct) = Len(ports) * Len(paths)
    /\ \A i \in DOMAIN log : log[i].op = "ffmpeg" =>
          /\ profiles # <<>>
          /\ \E t \in DOMAIN profiles : profiles[t] = log[i].token
          /\ log[i].path \notin {PyNone, ""}
          /\ \E j \in 1..(i - 1) :
                /\ log[j].op = "GetStreamUri" /\ log[j].token = log[i].token
          /\ \E j \in 1..(i - 1) : log[j].op = "GetProfiles" /\ log[j].hit

\* the three stages in one invocation: a hit was fetched and not saved, a
\* GetProfiles response yielded tokens, and GetStreamUri was sent for one
C24_Witness ==
    /\ \E i \in DOMAIN log : log[i].op = "probe" /\ log[i].hit
    /\ \E i \in DOMAIN log : log[i].op = "fetch"
    /\ \E i \in DOMAIN log : log[i].op = "GetProfiles" /\ log[i].hit
    /\ \E i \in DOMAIN log : log[i].op = "GetStreamUri"
    /\ profiles # <<>>
    /\ result.via # "direct"

\* C26: every probe, SOAP request and frame extraction of an invocation is
\* made with the first credential of the device's list, and a (port, path)
\* combination whose probe failed is not requested again with another
\* credential.
C26_FirstCredentialOnly ==
    /\ \A i \in DOMAIN log : log[i].cred = device.creds[1]
    /\ \A i \in DOMAIN log : (log[i].op = "probe" /\ ~log[i].hit) =>
          \A j \in (i + 1)..Len(log) :
              (log[j].port = log[i].port /\ log[j].path = log[i].path)
                  => log[j].cred = log[i].cred

\* a device with two credentials went through failed probes and on to the
\* SOAP requests
C26_Witness ==
    /\ Len(device.creds) > 1
    /\ device.creds[1] # device.creds[Len(device.creds)]
    /\ \E i \in DOMAIN log : log[i].op = "probe" /\ ~log[i].hit
    /\ \E i \in DOMAIN log : log[i].op = "GetProfiles"
    /\ \E i \in DOMAIN log : log[i].op = "GetStreamUri"

\* an attempt's outcome after which the loop goes on: no response at all, or
\* a response that is neither a hit nor a 401
Retryable(o) ==
    \/ o.kind # "response"
    \/ (~HardenedIsHit(o.resp) /\ o.resp.status # 401)

\* attempt a (counted from 0) failed and another attempt follows it
FollowedByAnother(a) ==
    /\ a + 1 < hMaxRetries
    /\ \A b \in 0..a : Retryable(hScript[b + 1])

C28_OnlyThePortIsAdded ==
    (nPc = "done" /\ StartsWith(nUrl, "rtsp://") /\ ~HasExplicitPort(nUrl)) =>
        /\ nOut = WithPort554(nUrl)
        /\ UserInfoOf(nOut) = UserInfoOf(nUrl)

\* C29 as claimed: a call of the retrying prober's _try_snapshot_url raises
\* nothing to its caller: it ends with image bytes or with None.
C29_ProberNeverRaises ==
    hResult \in {"none", "None", "content"}

\* C30 as claimed: normalizing the result of normalize_rtsp_url again, with
\* the same device host, returns it unchanged, and every result is an
\* rtsp:// URL that names its port.
C30_NormalizeIsIdempotent ==
    nPc = "again" =>
        /\ nAgain = nOut
        /\ StartsWith(nOut, "rtsp://") /\ HasExplicitPort(nOut)

-----------------------------------------------------------------------------
(* Claims about the device store *)

\* devices.json exists and holds a document json.load accepts
FileIsDocument ==
    /\ fsNames[DevicesFile] # NoInode
    /\ IsWellFormed(fsData[fsNames[DevicesFile]])

\* the devices devices.json holds
StoredNow == json_load(fsData[fsNames[DevicesFile]])

\* the devices devices.json held when the calls were made
StoredAtStart == IF fsAtStart = NoFile THEN <<>> ELSE json_load(fsAtStart)

\* the store shows the effect of a call
Reflects(op, stored) ==
    CASE op.kind = "add" ->
            /\ HasAddress(stored, op.address)
            /\ EntryOf(stored, op.address).last_seen = Now
      [] op.kind = "delete" -> ~HasAddress(stored, op.address)
      [] op.kind = "update" ->
            /\ HasAddress(stored, op.address)
            /\ ~op.group.none => EntryOf(stored, op.address).group = op.group.val
            /\ ~op.tags.none => EntryOf(stored, op.address).tags = op.tags.val
            /\ ~op.description.none =>
                  EntryOf(stored, op.address).description = op.description.val
      [] OTHER -> TRUE

\* C31 as claimed: when an add_device call and another call (add_device,
\* delete_device or update_device_metadata) for a different address
\* interleave and both return True, the store afterwards shows the effect
\* of both.
C31_NoLostUpdate ==
    ( /\ \A u \in Users : dmPc[u] = "done" /\ dmRet[u] = "True"
      /\ \E u \in Users : dmOp[u].kind = "add"
      /\ \A u, v \in Users : u # v => dmOp[u].address # dmOp[v].address )
    => ( /\ FileIsDocument
         /\ \A u \in Users : Reflects(dmOp[u], StoredNow) )

\* C32 as claimed: whenever devices.json exists it holds a complete
\* well-formed document, under every interleaving of the users' calls.
C32_FileAlwaysWellFormed ==
    fsNames[DevicesFile] # NoInode => IsWellFormed(fsData[fsNames[DevicesFile]])

\* C33: a call of update_device_metadata for a stored address replaces, in
\* that device's record, exactly the fields among group, tags and
\* description whose argument is not None, and leaves the record's other
\* fields, the other records and their order as they were; for an address
\* that is not stored, update_device_metadata and delete_device return
\* False and devices.json is as it was (or still absent).
C33_UpdateChangesOnlyWhatIsGiven ==
    \A u \in Users :
        (dmPc[u] = "done" /\ dmOp[u].kind \in {"update", "delete"}) =>
            LET op == dmOp[u]
                before == StoredAtStart
            IN  IF ~HasAddress(before, op.address)
                THEN /\ dmRet[u] = "False"
                     /\ IF fsAtStart = NoFile
                        THEN fsNames[DevicesFile] = NoInode
                        ELSE /\ fsNames[DevicesFile] # NoInode
                             /\ fsData[fsNames[DevicesFile]] = fsAtStart
                     /\ fsNames[TempFile] = NoInode
                ELSE op.kind = "update" =>
                     /\ dmRet[u] = "True"
                     /\ FileIsDocument
                     /\ Len(StoredNow) = Len(before)
                     /\ \A i \in DOMAIN before :
                           LET old == before[i]
                               new == StoredNow[i]
                           IN  IF old.address # op.address THEN new = old
                               ELSE /\ new.address = old.address
                                    /\ new.name = old.name
                                    /\ new.last_seen = old.last_seen
                                    /\ new.group = IF op.group.none THEN old.group
                                                   ELSE op.group.val
                                    /\ new.tags = IF op.tags.none THEN old.tags
                                                  ELSE op.tags.val
                                    /\ new.description =
                                          IF op.description.none THEN old.description
                                          ELSE op.description.val

\* an update of a stored device next to another one returned True: its
\* description was replaced by the empty string it was given, its group,
\* for which None was given, is the old one
C33_Witness ==
    /\ dmPc[1] = "done" /\ dmRet[1] = "True"
    /\ dmOp[1].kind = "update" /\ dmOp[1].address = StoredA.address
    /\ dmOp[1].group.none /\ dmOp[1].description = Given("")
    /\ Len(StoredAtStart) = 2
    /\ FileIsDocument
    /\ EntryOf(StoredNow, StoredA.address).description = ""
    /\ EntryOf(StoredNow, StoredA.address).group = StoredA.group

=============================================================================
